---- MODULE Spec2Model ----
(***************************************************************************)
(* A model of the nodyn! procedural macro: the parser of a declaration     *)
(* (NodynEnum, Variant, OptionalImpl), the emitter (to_token_stream) and   *)
(* the behaviour of the code it emits (From, TryFrom, introspection and    *)
(* the is_* / try_as_* accessors).                                         *)
(*                                                                         *)
(* Identifiers and strings are sequences of one-character strings, so that *)
(* the character-level routines (camel_to_snake, camel_case_ident,         *)
(* type_to_string) are computed rather than assumed.                       *)
(***************************************************************************)
EXTENDS Integers, Sequences, FiniteSets, TLC

\* ------------------------------------------------------------------------
\* Bounds of the explored inputs
\* ------------------------------------------------------------------------
MaxVariants == 3
MaxLists == 2
MaxKeywords == 2
MaxPayload == 2
MaxDepth == 2
MaxTupleDepth == 1
MaxIdentLen == 4
MaxBlocks == 2
MaxFns == 2

MaxVecLen == 3

MaxItems == 2

\* ------------------------------------------------------------------------
\* Characters
\* ------------------------------------------------------------------------
LowerChars ==
  <<"a","b","c","d","e","f","g","h","i","j","k","l","m",
    "n","o","p","q","r","s","t","u","v","w","x","y","z">>

UpperChars ==
  <<"A","B","C","D","E","F","G","H","I","J","K","L","M",
    "N","O","P","Q","R","S","T","U","V","W","X","Y","Z">>

DigitChars == <<"0","1","2","3","4","5","6","7","8","9">>

\* char::is_uppercase
is_uppercase(c) == \E i \in 1..Len(UpperChars) : UpperChars[i] = c

\* char::is_lowercase
is_lowercase(c) == \E i \in 1..Len(LowerChars) : LowerChars[i] = c

\* char::to_lowercase
to_lowercase(c) ==
  IF is_uppercase(c)
  THEN LowerChars[CHOOSE i \in 1..Len(UpperChars) : UpperChars[i] = c]
  ELSE c

\* char::to_uppercase
to_uppercase(c) ==
  IF is_lowercase(c)
  THEN UpperChars[CHOOSE i \in 1..Len(LowerChars) : LowerChars[i] = c]
  ELSE c

\* char::is_alphanumeric
is_alphanumeric(c) ==
  \/ is_uppercase(c)
  \/ is_lowercase(c)
  \/ \E i \in 1..Len(DigitChars) : DigitChars[i] = c

\* concatenation of a sequence of strings (Iterator::collect::<String>, join(""))
RECURSIVE Concat(_)
Concat(ss) == IF ss = <<>> THEN <<>> ELSE Head(ss) \o Concat(Tail(ss))

\* str::replace(pat, to): leftmost non-overlapping occurrences
RECURSIVE Replace(_, _, _)
Replace(s, pat, to) ==
  IF Len(s) < Len(pat) THEN s
  ELSE IF SubSeq(s, 1, Len(pat)) = pat
       THEN to \o Replace(SubSeq(s, Len(pat) + 1, Len(s)), pat, to)
       ELSE <<Head(s)>> \o Replace(Tail(s), pat, to)

\* ------------------------------------------------------------------------
\* syn::Type, as far as the macro inspects it
\*   kind  : "Path" | "Reference" | "Array" | "Slice" | "Tuple" | "BareFn"
\*           | "Ptr" | "TraitObject"
\*   segs  : the path segments of a Path, each [ident, args]
\*   elems : the referent / element type (one entry) or the tuple members
\*   len   : the words of an array's length expression
\*   lt    : the lifetime of a reference (empty if elided)
\* ------------------------------------------------------------------------
Segment(ident, args) == [ident |-> ident, args |-> args]

TypeArg(ty) == [kind |-> "Type", tys |-> <<ty>>]

LifetimeArg(lt) == [kind |-> "Lifetime", tys |-> <<>>]

TPath(segs) ==
  [kind |-> "Path", segs |-> segs, elems |-> <<>>, len |-> <<>>, lt |-> <<>>]

TName(ident) == TPath(<<Segment(ident, <<>>)>>)

TRef(lt, elem) ==
  [kind |-> "Reference", segs |-> <<>>, elems |-> <<elem>>, len |-> <<>>, lt |-> lt]

TArray(elem, len) ==
  [kind |-> "Array", segs |-> <<>>, elems |-> <<elem>>, len |-> len, lt |-> <<>>]

TSlice(elem) ==
  [kind |-> "Slice", segs |-> <<>>, elems |-> <<elem>>, len |-> <<>>, lt |-> <<>>]

TTuple(elems) ==
  [kind |-> "Tuple", segs |-> <<>>, elems |-> elems, len |-> <<>>, lt |-> <<>>]

TBareFn ==
  [kind |-> "BareFn", segs |-> <<>>, elems |-> <<>>, len |-> <<>>, lt |-> <<>>]

\* `*const elem`
TPtr(elem) ==
  [kind |-> "Ptr", segs |-> <<>>, elems |-> <<elem>>, len |-> <<>>, lt |-> <<>>]

\* `dyn ident`
TTraitObject(ident) ==
  [kind |-> "TraitObject", segs |-> <<Segment(ident, <<>>)>>, elems |-> <<>>,
   len |-> <<>>, lt |-> <<>>]

\* ------------------------------------------------------------------------
\* Identifier derivation (variant.rs)
\* ------------------------------------------------------------------------
\* camel_to_snake that keeps a run of capitals together: an underscore only
\* before a capital that follows a character that is no capital
camel_to_snake_runs(str) ==
  Concat([i \in 1..Len(str) |->
            IF is_uppercase(str[i])
            THEN (IF i = 1 \/ is_uppercase(str[i - 1]) THEN <<>> ELSE <<"_">>)
                   \o <<to_lowercase(str[i])>>
            ELSE <<str[i]>>])

camel_to_snake(camel) ==
  Concat([i \in 1..Len(camel) |->
            IF is_uppercase(camel[i])
            THEN (IF i = 1 THEN <<>> ELSE <<"_">>) \o <<to_lowercase(camel[i])>>
            ELSE <<camel[i]>>])

\* one word of camel_case_tokens: keep the alphanumeric characters and
\* upper-case the first of them
CamelWord(word) ==
  LET filtered == SelectSeq(word, LAMBDA c : is_alphanumeric(c))
  IN  IF filtered = <<>> THEN <<>>
      ELSE <<to_uppercase(Head(filtered))>> \o Tail(filtered)

camel_case_tokens(words) == Concat([i \in 1..Len(words) |-> CamelWord(words[i])])

RECURSIVE extract_path(_)
extract_path(ty) ==
  IF ty.kind = "Path" THEN [some |-> TRUE, path |-> ty.segs]
  ELSE IF ty.kind \in {"Reference", "Array"} THEN extract_path(ty.elems[1])
  ELSE [some |-> FALSE, path |-> <<>>]

IdentOk(ident) == [ok |-> TRUE, ident |-> ident, err |-> ""]

IdentErr(msg) == [ok |-> FALSE, ident |-> <<>>, err |-> msg]

RECURSIVE ident_from_type(_)
RECURSIVE camel_case_ident(_, _)

camel_case_ident(path, extension) ==
  LET ArgIdent(arg) ==
        IF arg.kind \in {"Type", "AssocType"}
        THEN LET r == ident_from_type(arg.tys[1])
             IN  IF r.ok THEN r.ident ELSE <<>>
        ELSE <<>>
      SegIdent(seg) ==
        LET extra_idents == Concat([j \in 1..Len(seg.args) |-> ArgIdent(seg.args[j])])
        IN  IF seg.ident = <<>> THEN <<>>
            ELSE <<to_uppercase(Head(seg.ident))>> \o Tail(seg.ident)
                   \o extra_idents \o extension
  IN  Concat([i \in 1..Len(path) |-> SegIdent(path[i])])

ident_from_type(ty) ==
  CASE ty.kind = "Path" -> IdentOk(camel_case_ident(ty.segs, <<>>))
    [] ty.kind = "Reference" ->
         LET p == extract_path(ty.elems[1])
         IN  IF p.some THEN IdentOk(camel_case_ident(p.path, <<"R","e","f">>))
             ELSE IdentErr("Unsupported reference type")
    [] ty.kind = "Array" ->
         LET ext == <<"A","r","r","a","y">> \o camel_case_tokens(ty.len)
             p == extract_path(ty.elems[1])
         IN  IF p.some THEN IdentOk(camel_case_ident(p.path, ext))
             ELSE IdentErr("Unsupported array type")
    [] ty.kind = "Tuple" ->
         LET ps == [i \in 1..Len(ty.elems) |-> extract_path(ty.elems[i])]
         IN  IF \A i \in 1..Len(ps) : ps[i].some
             THEN IdentOk(Concat([i \in 1..Len(ps) |-> camel_case_ident(ps[i].path, <<>>)])
                          \o <<"T","u","p","l","e">>)
             ELSE IdentErr("Unsupported tuple type")
    [] OTHER -> IdentErr("Unsupported type for variant identifier")

\* ------------------------------------------------------------------------
\* Variant::type_to_string: the token stream of the type rendered with a
\* blank between tokens, then cleaned up by the five replacements
\* ------------------------------------------------------------------------
JoinWith(ss, sep) ==
  Concat([i \in 1..Len(ss) |-> IF i = 1 THEN ss[i] ELSE sep \o ss[i]])

RECURSIVE TypeTokens(_)
TypeTokens(ty) ==
  LET ArgTokens(arg) ==
        IF arg.kind = "Type" THEN TypeTokens(arg.tys[1]) ELSE <<"'", "_">>
      SegTokens(seg) ==
        IF seg.args = <<>> THEN seg.ident
        ELSE seg.ident \o <<" ", "<", " ">>
               \o JoinWith([j \in 1..Len(seg.args) |-> ArgTokens(seg.args[j])], <<" ", ",", " ">>)
               \o <<" ", ">">>
  IN  CASE ty.kind = "Path" ->
             JoinWith([i \in 1..Len(ty.segs) |-> SegTokens(ty.segs[i])], <<" ", ":", ":", " ">>)
        [] ty.kind = "Reference" ->
             <<"&", " ">> \o (IF ty.lt = <<>> THEN <<>> ELSE <<"'">> \o ty.lt \o <<" ">>)
               \o TypeTokens(ty.elems[1])
        [] ty.kind = "Array" ->
             <<"[">> \o TypeTokens(ty.elems[1]) \o <<";", " ">> \o JoinWith(ty.len, <<" ">>) \o <<"]">>
        [] ty.kind = "Slice" -> <<"[">> \o TypeTokens(ty.elems[1]) \o <<"]">>
        [] ty.kind = "Tuple" ->
             <<"(">> \o JoinWith([i \in 1..Len(ty.elems) |-> TypeTokens(ty.elems[i])], <<" ", ",", " ">>)
               \o <<")">>
        [] ty.kind = "Ptr" ->
             <<"*", " ", "c", "o", "n", "s", "t", " ">> \o TypeTokens(ty.elems[1])
        [] ty.kind = "TraitObject" -> <<"d", "y", "n", " ">> \o ty.segs[1].ident
        [] OTHER -> <<"f", "n", "(", ")">>

type_to_string(ty) ==
  Replace(Replace(Replace(Replace(Replace(TypeTokens(ty),
    <<"&", " ">>, <<"&">>),
    <<"&", " ", "'">>, <<"&", "'">>),
    <<" ", "<", " ">>, <<"<">>),
    <<" ", ">", " ">>, <<">">>),
    <<" ", ">">>, <<">">>)

\* ------------------------------------------------------------------------
\* State
\* ------------------------------------------------------------------------
VARIABLES
  input,          \* the token stream handed to nodyn!: [variants, items]
  cargo,          \* the Cargo features the macro crate was built with
  pc,             \* "input" | "parsed" | "error" | "expanded"
  variants,       \* NodynEnum.variants
  optional_impl,  \* NodynEnum.optional_impl
  error,          \* the message of the syn::Error returned by the parser
  tokens,         \* the declarations emitted by to_token_stream
  value,          \* a value of the generated enum: <<>> or <<[tag, payload]>>
  result,         \* the last call into the generated code: <<>> or <<record>>
  source,         \* one variant entry handed to Variant::parse: <<>> or <<entry>>
  camel,          \* a string handed to camel_to_snake
  ipc,            \* "input" | "parsed" | "error" | "named"
  parsed,         \* the result of Variant::parse on entry
  snaked,         \* the last camel_to_snake call: <<>> or <<[of, ret]>>
  blocks,         \* the `impl { .. }` and `impl Trait { .. }` blocks of the input
  mpc,            \* "input" | "parsed" | "expanded"
  method_impls,   \* NodynEnum.method_impls
  trait_impls,    \* NodynEnum.trait_impls
  emitted,        \* the impl blocks emitted: [methods, traits]
  decl,           \* a declaration with one wrapper item: [attrs, visibility, ident, generics, variants, items]
  vpc,            \* "input" | "parsed" | "error" | "panic" | "expanded" | "value"
  nodyn_enum,     \* the parsed NodynEnum: <<>> or <<record>>
  vec_tokens,     \* the tokens emitted for each wrapper of the declaration
  inner           \* the Vec field of a value of the first wrapper

\* the state of the expansion of one declaration
declVars == <<input, cargo, pc, variants, optional_impl, error, tokens, value, result>>

\* the state of the derivation of one variant's names
identVars == <<source, camel, ipc, parsed, snaked>>

\* the state of the expansion of the impl blocks of a declaration
implVars == <<blocks, mpc, method_impls, trait_impls, emitted>>

\* the state of the expansion and use of the vec wrappers of a declaration
vecVars == <<decl, vpc, nodyn_enum, vec_tokens, inner>>

vars == <<declVars, identVars, implVars, vecVars>>

\* ------------------------------------------------------------------------
\* Variant::parse (variant.rs)
\*   entry: [attrs, outer, paren], the tokens `#[..]* outer [ (paren) ]`
\* ------------------------------------------------------------------------
Attr(path, args) == [path |-> path, args |-> args]

Entry(attrs, outer, paren) == [attrs |-> attrs, outer |-> outer, paren |-> paren]

\* Variant::parse that falls back to an empty identifier when none can be
\* derived (unwrap_or_default in place of `?`)
ParseVariant_unwrap_or_default(entry) ==
  LET id == ident_from_type(entry.outer)
      ty == IF entry.paren # <<>> THEN entry.paren[1] ELSE entry.outer
      into == SelectSeq(entry.attrs, LAMBDA a : a.path = "into")
      other_attrs == SelectSeq(entry.attrs, LAMBDA a : a.path # "into")
      into_types == Concat([i \in 1..Len(into) |-> into[i].args])
  IN  [ok |-> TRUE, err |-> "",
       variant |-> <<[attrs |-> other_attrs, into |-> into_types,
                      ident |-> id.ident, ty |-> ty]>>]

ParseVariant(entry) ==
  LET id == ident_from_type(entry.outer)
      ty == IF entry.paren # <<>> THEN entry.paren[1] ELSE entry.outer
      into == SelectSeq(entry.attrs, LAMBDA a : a.path = "into")
      other_attrs == SelectSeq(entry.attrs, LAMBDA a : a.path # "into")
      into_types == Concat([i \in 1..Len(into) |-> into[i].args])
  IN  IF id.ok
      THEN [ok |-> TRUE, err |-> "",
            variant |-> <<[attrs |-> other_attrs, into |-> into_types,
                           ident |-> id.ident, ty |-> ty]>>]
      ELSE [ok |-> FALSE, err |-> id.err, variant |-> <<>>]

\* Punctuated::<Variant, Token![,]>::parse_terminated: the variants in order,
\* or the error of the first entry that fails
RECURSIVE ParseVariants(_, _)
ParseVariants(entries, acc) ==
  IF entries = <<>> THEN [ok |-> TRUE, err |-> "", variants |-> acc]
  ELSE LET v == ParseVariant(Head(entries))
       IN  IF v.ok THEN ParseVariants(Tail(entries), acc \o v.variant)
           ELSE [ok |-> FALSE, err |-> v.err, variants |-> <<>>]

\* ------------------------------------------------------------------------
\* OptionalImpl (optional_impl.rs)
\* ------------------------------------------------------------------------
OptionalImplDefault == [try_into |-> FALSE, is_as |-> FALSE, introspection |-> FALSE]

\* merge that lets the later list replace the earlier ones
merge_overwrite(self, other) == other

merge(self, other) ==
  [try_into |-> IF other.try_into THEN TRUE ELSE self.try_into,
   is_as |-> IF other.is_as THEN TRUE ELSE self.is_as,
   introspection |-> IF other.introspection THEN TRUE ELSE self.introspection]

none(self) == ~self.try_into /\ ~self.is_as /\ ~self.introspection

\* OptionalImpl::parse: the loop over the keywords of one `impl` list
RECURSIVE ParseOptionalImpl(_, _)
ParseOptionalImpl(keywords, optional) ==
  IF keywords = <<>> THEN optional
  ELSE LET k == Head(keywords)
       IN  ParseOptionalImpl(Tail(keywords),
             IF k = "TryInto" THEN [optional EXCEPT !.try_into = TRUE]
             ELSE IF k = "is_as" THEN [optional EXCEPT !.is_as = TRUE]
             ELSE [optional EXCEPT !.introspection = TRUE])

\* ------------------------------------------------------------------------
\* NodynEnum::parse (nodyn_enum.rs)
\* ------------------------------------------------------------------------
\* "Ensure unique variant types": TRUE iff the loop over the variants finds
\* one whose type is already in existing_types
\* the uniqueness check made on the variant identifiers instead of the types
HasDuplicateType_by_ident(vs) ==
  \E i, j \in 1..Len(vs) : i < j /\ vs[i].ident = vs[j].ident

HasDuplicateType(vs) ==
  \E i, j \in 1..Len(vs) : i < j /\ vs[i].ty = vs[j].ty

\* the loop over the items that follow the variant list
RECURSIVE ParseItems(_, _)
ParseItems(items, features) ==
  IF items = <<>> THEN [ok |-> TRUE, err |-> "", features |-> features]
  ELSE LET item == Head(items)
       IN  IF item.kind = "features"
           THEN ParseItems(Tail(items),
                           merge(features, ParseOptionalImpl(item.keywords, OptionalImplDefault)))
           ELSE [ok |-> FALSE, err |-> "Expected 'impl' or struct item",
                 features |-> OptionalImplDefault]

NodynEnumParse(in) ==
  LET vs == ParseVariants(in.variants, <<>>)
      items == ParseItems(in.items, OptionalImplDefault)
  IN  IF ~vs.ok
      THEN [ok |-> FALSE, err |-> vs.err, variants |-> <<>>,
            optional_impl |-> OptionalImplDefault]
      ELSE IF HasDuplicateType(vs.variants)
      THEN [ok |-> FALSE, err |-> "Duplicate variant type detected", variants |-> <<>>,
            optional_impl |-> OptionalImplDefault]
      ELSE IF ~items.ok
      THEN [ok |-> FALSE, err |-> items.err, variants |-> <<>>,
            optional_impl |-> OptionalImplDefault]
      ELSE [ok |-> TRUE, err |-> "", variants |-> vs.variants,
            optional_impl |-> items.features]

\* ------------------------------------------------------------------------
\* Match arms emitted by Variant (variant.rs).  An arm is
\*   [pat, body, text]: the pattern `Wrapper::pat(..)`, the kind of its
\*   right-hand side and the string literal it carries, if any.
\*   A routine that may emit no arm returns a sequence of zero or one arm.
\* ------------------------------------------------------------------------
Arm(pat, body, text) == [pat |-> pat, body |-> body, text |-> text]

Contains(seq, x) == \E i \in 1..Len(seq) : seq[i] = x

\* to_try_from_arm with the #[into] lookup made on the target's list
to_try_from_arm_swapped(self, other) ==
  IF self.ident = other.ident THEN Arm(self.ident, "Ok(value)", <<>>)
  ELSE IF Contains(other.into, self.ty) THEN Arm(self.ident, "Ok(value.into())", <<>>)
  ELSE Arm(self.ident, "Err(message)", <<>>)

to_try_from_arm(self, other) ==
  IF self.ident = other.ident THEN Arm(self.ident, "Ok(value)", <<>>)
  ELSE IF Contains(self.into, other.ty) THEN Arm(self.ident, "Ok(value.into())", <<>>)
  ELSE Arm(self.ident, "Err(message)",
           <<"N","o"," ","c","o","n","v","e","r","s","i","o","n"," ","f","r","o","m"," ","'">>
             \o type_to_string(self.ty) \o <<"'"," ","t","o"," ">> \o type_to_string(other.ty))

to_type_as_str_arm(self) == Arm(self.ident, "literal", type_to_string(self.ty))

\* to_is_type_arm that also accepts the #[into] targets, as to_as_type_arm does
to_is_type_arm_with_into(self, ty) ==
  IF self.ty = ty \/ Contains(self.into, ty) THEN <<Arm(self.ident, "true", <<>>)>> ELSE <<>>

to_is_type_arm(self, ty) ==
  IF self.ty = ty THEN <<Arm(self.ident, "true", <<>>)>> ELSE <<>>

\* to_as_type_arm without the arm for the variant's own type
to_as_type_arm_only_into(self, ty) ==
  IF Contains(self.into, ty) THEN <<Arm(self.ident, "Some(value.into())", <<>>)>>
  ELSE <<>>

\* to_as_type_arm without the arm for the #[into] targets
to_as_type_arm_no_into(self, ty) ==
  IF self.ty = ty THEN <<Arm(self.ident, "Some(value)", <<>>)>> ELSE <<>>

to_as_type_arm(self, ty) ==
  IF self.ty = ty THEN <<Arm(self.ident, "Some(value)", <<>>)>>
  ELSE IF Contains(self.into, ty) THEN <<Arm(self.ident, "Some(value.into())", <<>>)>>
  ELSE <<>>

to_as_ref_arm(self, ty) ==
  IF self.ty = ty THEN <<Arm(self.ident, "Some(value)", <<>>)>> ELSE <<>>

to_as_mut_arm(self, ty) ==
  IF self.ty = ty THEN <<Arm(self.ident, "Some(value)", <<>>)>> ELSE <<>>

ident_to_snake(self) == camel_to_snake(self.ident)

\* ------------------------------------------------------------------------
\* The emitter (nodyn_enum.rs)
\* ------------------------------------------------------------------------
enum_definition_tokens(vs) ==
  [i \in 1..Len(vs) |-> [attrs |-> vs[i].attrs, ident |-> vs[i].ident, ty |-> vs[i].ty]]

from_tokens(vs) ==
  [i \in 1..Len(vs) |-> [ty |-> vs[i].ty, variant_ident |-> vs[i].ident]]

try_from_tokens(vs) ==
  [o \in 1..Len(vs) |->
     [ty |-> vs[o].ty,
      arms |-> [i \in 1..Len(vs) |-> to_try_from_arm(vs[i], vs[o])]]]

\* introspection_tokens with the list of type names built in reverse order
introspection_tokens_reversed(vs) ==
  [count |-> Len(vs),
   types |-> [i \in 1..Len(vs) |-> type_to_string(vs[Len(vs) + 1 - i].ty)],
   type_name |-> [i \in 1..Len(vs) |-> to_type_as_str_arm(vs[i])]]

introspection_tokens(vs) ==
  [count |-> Len(vs),
   types |-> [i \in 1..Len(vs) |-> type_to_string(vs[i].ty)],
   type_name |-> [i \in 1..Len(vs) |-> to_type_as_str_arm(vs[i])]]

is_as_tokens(vs) ==
  [k \in 1..Len(vs) |->
     LET ty == vs[k].ty
         snake == ident_to_snake(vs[k])
     IN  [ty |-> ty,
          is_fn |-> <<"i","s","_">> \o snake,
          is_arms |-> Concat([i \in 1..Len(vs) |-> to_is_type_arm(vs[i], ty)]),
          as_fn |-> <<"t","r","y","_","a","s","_">> \o snake,
          as_arms |-> Concat([i \in 1..Len(vs) |-> to_as_type_arm(vs[i], ty)]),
          ref_mut_methods |->
            IF ty.kind = "Reference" THEN <<>>
            ELSE <<[as_ref_fn |-> <<"t","r","y","_","a","s","_">> \o snake \o <<"_","r","e","f">>,
                    as_ref_arms |-> Concat([i \in 1..Len(vs) |-> to_as_ref_arm(vs[i], ty)]),
                    as_mut_fn |-> <<"t","r","y","_","a","s","_">> \o snake \o <<"_","m","u","t">>,
                    as_mut_arms |-> Concat([i \in 1..Len(vs) |-> to_as_mut_arm(vs[i], ty)])]>>]]

default_tokens(vs) == from_tokens(vs)

\* optional_tokens: the keywords of the invocation decide, and the Cargo
\* features (cfg(feature = ..)) only when no keyword was given
\* optional_tokens that adds the Cargo features to the keywords in every case
optional_tokens_cargo_always(vs, optional, features) ==
  [try_into |-> IF optional.try_into \/ "try_into" \in features
                THEN try_from_tokens(vs) ELSE <<>>,
   type_fns |-> IF optional.introspection \/ "introspection" \in features
                THEN <<introspection_tokens(vs)>> ELSE <<>>,
   is_as_fn |-> IF optional.is_as \/ "is_as" \in features
                THEN <<is_as_tokens(vs)>> ELSE <<>>]

optional_tokens(vs, optional, features) ==
  IF none(optional)
  THEN [try_into |-> IF "try_into" \in features THEN try_from_tokens(vs) ELSE <<>>,
        type_fns |-> IF "introspection" \in features THEN <<introspection_tokens(vs)>> ELSE <<>>,
        is_as_fn |-> IF "is_as" \in features THEN <<is_as_tokens(vs)>> ELSE <<>>]
  ELSE [try_into |-> IF optional.try_into THEN try_from_tokens(vs) ELSE <<>>,
        type_fns |-> IF optional.introspection THEN <<introspection_tokens(vs)>> ELSE <<>>,
        is_as_fn |-> IF optional.is_as THEN <<is_as_tokens(vs)>> ELSE <<>>]

\* to_token_stream with the From impls emitted only when a feature is selected
to_token_stream_from_gated(vs, optional, features) ==
  [enum_definition |-> enum_definition_tokens(vs),
   default |-> IF none(optional) THEN <<>> ELSE default_tokens(vs),
   optional |-> optional_tokens(vs, optional, features)]

to_token_stream(vs, optional, features) ==
  [enum_definition |-> enum_definition_tokens(vs),
   default |-> default_tokens(vs),
   optional |-> optional_tokens(vs, optional, features)]

NoTokens ==
  [enum_definition |-> <<>>, default |-> <<>>,
   optional |-> [try_into |-> <<>>, type_fns |-> <<>>, is_as_fn |-> <<>>]]

\* ------------------------------------------------------------------------
\* Method and trait blocks (impl_block.rs, trait_impl.rs, nodyn_enum.rs)
\*   a function item is [attrs, vis, ident, inputs, body]: inputs are the
\*   parameters [kind, pat] with kind "Receiver" or "Typed"; body is <<>> for
\*   a signature that ends in `;` and <<text>> for an item with a body
\* ------------------------------------------------------------------------
FnArg(kind, pat) == [kind |-> kind, pat |-> pat]

FnItem(attrs, vis, ident, inputs, body) ==
  [attrs |-> attrs, vis |-> vis, ident |-> ident, inputs |-> inputs, body |-> body]

\* ImplBlock::parse: the items with a body are kept as they are, a bodiless
\* signature becomes a function with the empty body `{}`
ImplBlockParse(items) ==
  [items |-> SelectSeq(items, LAMBDA it : it.body # <<>>),
   functions |-> SelectSeq(items, LAMBDA it : it.body = <<>>)]

\* TraitImpl::parse
TraitImplParse(block) == [path |-> block.path[1], block |-> ImplBlockParse(block.items)]

\* the `impl` branch of the loop of NodynEnum::parse: a block that starts
\* with an identifier is a trait block
ParseImpls(bs) ==
  LET of_traits == SelectSeq(bs, LAMBDA b : b.path # <<>>)
      of_methods == SelectSeq(bs, LAMBDA b : b.path = <<>>)
  IN  [impl_blocks |-> [i \in 1..Len(of_methods) |-> ImplBlockParse(of_methods[i].items)],
       trait_blocks |-> [i \in 1..Len(of_traits) |-> TraitImplParse(of_traits[i])]]

\* the patterns of the typed parameters, in order
TypedPats(inputs) ==
  LET typed == SelectSeq(inputs, LAMBDA a : a.kind = "Typed")
  IN  [i \in 1..Len(typed) |-> typed[i].pat]

\* to_fn_call_arm that hands the arguments over in reverse order
to_fn_call_arm_reversed(self, function, inputs) ==
  LET pats == TypedPats(inputs)
  IN  [pat |-> self.ident, function |-> function,
       args |-> [i \in 1..Len(pats) |-> pats[Len(pats) + 1 - i]]]

\* `Wrapper::ident(value) => value.function(args),`
to_fn_call_arm(self, function, inputs) ==
  [pat |-> self.ident, function |-> function, args |-> TypedPats(inputs)]

\* the method emitted for one function of a block, as zero or one method
DelegatedMethod(vs, f) ==
  IF f.inputs # <<>> /\ f.inputs[1].kind = "Receiver"
  THEN <<[attrs |-> f.attrs, vis |-> f.vis, ident |-> f.ident, inputs |-> f.inputs,
          arms |-> [i \in 1..Len(vs) |-> to_fn_call_arm(vs[i], f.ident, f.inputs)]]>>
  ELSE <<>>

\* method_tokens that emits a method for every bodiless signature
method_tokens_all(vs, impls) ==
  [b \in 1..Len(impls) |->
     [items |-> impls[b].items,
      methods |-> [k \in 1..Len(impls[b].functions) |->
                     LET f == impls[b].functions[k]
                     IN  [attrs |-> f.attrs, vis |-> f.vis, ident |-> f.ident,
                          inputs |-> f.inputs,
                          arms |-> [i \in 1..Len(vs) |->
                                      to_fn_call_arm(vs[i], f.ident, f.inputs)]]]]]

method_tokens(vs, impls) ==
  [b \in 1..Len(impls) |->
     [items |-> impls[b].items,
      methods |-> Concat([k \in 1..Len(impls[b].functions) |->
                            DelegatedMethod(vs, impls[b].functions[k])])]]

\* ImplBlock::expand_methods: nothing for a signature without a receiver
expand_methods(self, vs) ==
  Concat([k \in 1..Len(self.functions) |-> DelegatedMethod(vs, self.functions[k])])

trait_tokens(vs, impls) ==
  [b \in 1..Len(impls) |->
     [trait_path |-> impls[b].path,
      items |-> impls[b].block.items,
      fns |-> expand_methods(impls[b].block, vs)]]

NoImpls == [methods |-> <<>>, traits |-> <<>>]

\* ------------------------------------------------------------------------
\* Vec wrappers (vec_wrapper.rs, variant.rs, nodyn_enum.rs)
\* ------------------------------------------------------------------------
\*   a derive attribute is Attr("derive", <<"Clone", ..>>): its arguments are
\*   the listed trait names; a struct item is [attrs, vis, ident, generics,
\*   fields], a field [vis, ident, ty]; a VecWrapper is [definition,
\*   vec_field, is_custom]; a parsed enum is [attrs, visibility, ident,
\*   generics, variants, method_impls, trait_impls, optional_impl,
\*   vec_wrappers]
StructItem(attrs, vis, ident, generics, fields) ==
  [attrs |-> attrs, vis |-> vis, ident |-> ident, generics |-> generics, fields |-> fields]

extract_derive_attrs(attrs) == SelectSeq(attrs, LAMBDA a : a.path = "derive")

\* NodynEnum::extract_module_path of `#[module_path = value]`: whether the
\* expect on the parse of the value as a path panics, and the other
\* attributes. Of the values explored `my_crate::foo` is a path and `42`
\* is none.
extract_module_path(attrs) ==
  LET is_module_path(attr) == attr.path = "module_path"
      found == SelectSeq(attrs, is_module_path)
      is_path(v) == v = "my_crate::foo"
  IN  [panicked |-> found # <<>> /\ ~is_path(found[1].args[1]),
       attrs |-> SelectSeq(attrs, LAMBDA attr : ~is_module_path(attr))]

\* Punctuated::<Ident, Token![,]>::parse_terminated of the tokens of a
\* derive list: of the items explored `serde::Serialize` is no Ident
parse_idents_ok(list) == \A i \in 1..Len(list.args) : list.args[i] # "serde::Serialize"

\* strip_copy: the derive lists without Copy; the unwrap of a derive list
\* that is no list of identifiers panics
strip_copy(attrs) ==
  [panicked |-> \E i \in 1..Len(attrs) : attrs[i].path = "derive" /\ ~parse_idents_ok(attrs[i]),
   attrs |-> [i \in 1..Len(attrs) |->
                IF attrs[i].path = "derive"
                THEN Attr("derive", SelectSeq(attrs[i].args, LAMBDA id : id # "Copy"))
                ELSE attrs[i]]]

is_trait_derived(attributes, trait_name) ==
  \E i \in 1..Len(attributes) :
     /\ attributes[i].path = "derive"
     /\ parse_idents_ok(attributes[i])
     /\ Contains(attributes[i].args, trait_name)

\* `vec;` and `vec Name;`: self is [attrs, ident], ident <<>> or <<Name>>;
\* this variant keeps the Copy of the enum's derive list
into_vec_wrapper_keep_copy(self, visibility, enum_ident, generics, derive_attr) ==
  [definition |->
     StructItem(<<Attr("derive", <<"Default">>)>> \o self.attrs \o derive_attr,
                visibility,
                IF self.ident = <<>> THEN enum_ident \o <<"V","e","c">> ELSE self.ident[1],
                generics,
                <<[vis |-> visibility, ident |-> "inner",
                   ty |-> [vec_of |-> enum_ident, generics |-> generics]]>>),
   vec_field |-> "inner",
   is_custom |-> FALSE]

into_vec_wrapper(self, visibility, enum_ident, generics, derive_attr) ==
  [definition |->
     StructItem(<<Attr("derive", <<"Default">>)>> \o self.attrs \o strip_copy(derive_attr).attrs,
                visibility,
                IF self.ident = <<>> THEN enum_ident \o <<"V","e","c">> ELSE self.ident[1],
                generics,
                <<[vis |-> visibility, ident |-> "inner",
                   ty |-> [vec_of |-> enum_ident, generics |-> generics]]>>),
   vec_field |-> "inner",
   is_custom |-> FALSE]

\* a struct item with named fields
VecWrapperParse(wrapper) ==
  [definition |-> wrapper, vec_field |-> "temp", is_custom |-> TRUE]

\* nothing parsed yet from the items that follow the variant list
NoItems ==
  [ok |-> TRUE, err |-> "", panicked |-> FALSE, features |-> OptionalImplDefault,
   impl_blocks |-> <<>>, trait_blocks |-> <<>>, wrappers |-> <<>>]

\* the loop of NodynEnum::parse over the items that follow the variant list.
\* An item is [kind |-> "features", keywords], [kind |-> "impl", block],
\* [kind |-> "vec", ident], [kind |-> "struct", shape, definition] or
\* [kind |-> "other"].  input.parse::<VecWrapper>() consumes a struct item
\* before it looks at the shape of its fields; when it fails on a struct
\* that is not "named", StandardVecWrapper is parsed from the tokens that
\* follow the struct.  A panic of into_vec_wrapper (the unwrap of
\* strip_copy) ends the loop with panicked set
RECURSIVE ParseWrappers(_, _, _, _, _, _)
ParseWrappers(items, acc, visibility, ident, generics, derive_attrs) ==
  IF items = <<>> THEN acc
  ELSE
    LET item == Head(items)
        rest == Tail(items)
        Standard(it) == into_vec_wrapper([attrs |-> <<>>, ident |-> it.ident],
                                         visibility, ident, generics, derive_attrs)
        Expected == [acc EXCEPT !.ok = FALSE, !.err = "Expected 'impl' or struct item"]
        Panicked == [acc EXCEPT !.ok = FALSE, !.panicked = TRUE]
        Push(its, it) ==
          IF strip_copy(derive_attrs).panicked
          THEN Panicked
          ELSE ParseWrappers(its, [acc EXCEPT !.wrappers = Append(@, Standard(it))],
                             visibility, ident, generics, derive_attrs)
        Go(its, a) == ParseWrappers(its, a, visibility, ident, generics, derive_attrs)
    IN  CASE item.kind = "features" ->
               Go(rest, [acc EXCEPT !.features =
                           merge(@, ParseOptionalImpl(item.keywords, OptionalImplDefault))])
          [] item.kind = "impl" /\ item.block.path # <<>> ->
               Go(rest, [acc EXCEPT !.trait_blocks = Append(@, TraitImplParse(item.block))])
          [] item.kind = "impl" /\ item.block.path = <<>> ->
               Go(rest, [acc EXCEPT !.impl_blocks = Append(@, ImplBlockParse(item.block.items))])
          [] item.kind = "struct" /\ item.shape = "named" ->
               Go(rest, [acc EXCEPT !.wrappers = Append(@, VecWrapperParse(item.definition))])
          [] item.kind = "struct" /\ item.shape # "named" ->
               IF rest # <<>> /\ Head(rest).kind = "vec"
               THEN Push(Tail(rest), Head(rest))
               ELSE Expected
          [] item.kind = "vec" ->
               Push(rest, item)
          [] OTHER -> Expected

\* the per-variant methods of a wrapper; last_<v> searches from the front
generate_vec_methods_last_from_front(self, enum_ident, vec_field) ==
  LET snake == ident_to_snake(self)
      Method(pre, post, role) ==
        [name |-> pre \o snake \o post,
         role |-> IF role = "last" THEN "first" ELSE role,
         pat |-> self.ident, field |-> vec_field]
  IN  << Method(<<"f","i","r","s","t","_">>, <<>>, "first"),
         Method(<<"f","i","r","s","t","_">>, <<"_","m","u","t">>, "first_mut"),
         Method(<<"l","a","s","t","_">>, <<>>, "last"),
         Method(<<"l","a","s","t","_">>, <<"_","m","u","t">>, "last_mut"),
         Method(<<"i","t","e","r","_">>, <<>>, "iter"),
         Method(<<"i","t","e","r","_">>, <<"_","m","u","t">>, "iter_mut"),
         Method(<<"c","o","u","n","t","_">>, <<>>, "count") >>

\* the per-variant methods of a wrapper; a counting method whose pattern
\* matches no alternative
generate_vec_methods_no_match(self, enum_ident, vec_field) ==
  LET snake == ident_to_snake(self)
      Method(pre, post, role) ==
        [name |-> pre \o snake \o post, role |-> role,
         pat |-> IF role = "count" THEN <<>> ELSE self.ident, field |-> vec_field]
  IN  << Method(<<"f","i","r","s","t","_">>, <<>>, "first"),
         Method(<<"f","i","r","s","t","_">>, <<"_","m","u","t">>, "first_mut"),
         Method(<<"l","a","s","t","_">>, <<>>, "last"),
         Method(<<"l","a","s","t","_">>, <<"_","m","u","t">>, "last_mut"),
         Method(<<"i","t","e","r","_">>, <<>>, "iter"),
         Method(<<"i","t","e","r","_">>, <<"_","m","u","t">>, "iter_mut"),
         Method(<<"c","o","u","n","t","_">>, <<>>, "count") >>

generate_vec_methods(self, enum_ident, vec_field) ==
  LET snake == ident_to_snake(self)
      Method(pre, post, role) ==
        [name |-> pre \o snake \o post, role |-> role,
         pat |-> self.ident, field |-> vec_field]
  IN  << Method(<<"f","i","r","s","t","_">>, <<>>, "first"),
         Method(<<"f","i","r","s","t","_">>, <<"_","m","u","t">>, "first_mut"),
         Method(<<"l","a","s","t","_">>, <<>>, "last"),
         Method(<<"l","a","s","t","_">>, <<"_","m","u","t">>, "last_mut"),
         Method(<<"i","t","e","r","_">>, <<>>, "iter"),
         Method(<<"i","t","e","r","_">>, <<"_","m","u","t">>, "iter_mut"),
         Method(<<"c","o","u","n","t","_">>, <<>>, "count") >>

\* the any_<v> and all_<v> methods of Variant::vec_methods_tokens, the
\* routine NodynEnum::variant_vec_tokens calls for every variant
vec_methods_tokens(self, enum_ident, vec_field) ==
  LET snake == ident_to_snake(self)
      Method(pre, role) ==
        [name |-> pre \o snake, role |-> role, pat |-> self.ident, field |-> vec_field]
  IN  << Method(<<"a","n","y","_">>, "any"), Method(<<"a","l","l","_">>, "all") >>

\* the construction macro: its name and, for the list arm, the struct
\* literal it expands to
macro_tokens(self, nodyn) ==
  [name |-> camel_to_snake(self.definition.ident),
   wrapper |-> self.definition.ident,
   field |-> self.vec_field,
   from |-> nodyn.ident,
   rest_default |-> self.is_custom]

\* the macro generated whatever the wrapper derives
with_default_tokens_always(self, nodyn) ==
  IF ~is_trait_derived(self.definition.attrs, "Default")
  THEN [methods |-> {}, vec_macro |-> <<macro_tokens(self, nodyn)>>]
  ELSE [methods |-> {"new", "with_capacity", "split_off"},
        vec_macro |-> <<macro_tokens(self, nodyn)>>]

with_default_tokens(self, nodyn) ==
  IF ~is_trait_derived(self.definition.attrs, "Default")
  THEN [methods |-> {}, vec_macro |-> <<>>]
  ELSE [methods |-> {"new", "with_capacity", "split_off"},
        vec_macro |-> <<macro_tokens(self, nodyn)>>]

\* the copy methods gated on the derive list of the wrapper
with_copy_tokens_wrapper(self, nodyn) ==
  IF ~is_trait_derived(self.definition.attrs, "Copy")
  THEN {}
  ELSE {"copy_from_slice", "copy_within"}

with_copy_tokens(self, nodyn) ==
  IF ~is_trait_derived(nodyn.attrs, "Copy")
  THEN {}
  ELSE {"copy_from_slice", "copy_within"}

\* GenericsExt::new_lifetime: the last of 'a..'z that is not a lifetime
\* parameter of self; the empty sequence when the loop falls through to the
\* panic. A generic parameter is [kind, name] with kind "lifetime", "type"
\* or "const".
new_lifetime(self) ==
  LET contains_lifetime(other) ==
        \E i \in 1..Len(self) : self[i].kind = "lifetime" /\ self[i].name = other
      unused == SelectSeq(LowerChars, LAMBDA c : ~contains_lifetime(c))
  IN  IF unused = <<>> THEN <<>> ELSE <<unused[Len(unused)]>>

\* GenericsExt::new_type: the first of A..Z that is not a type parameter of
\* self; the empty sequence when the loop falls through to the panic
new_type(self) ==
  LET contains_type(other) ==
        \E i \in 1..Len(self) : self[i].kind = "type" /\ self[i].name = other
      unused == SelectSeq(UpperChars, LAMBDA c : ~contains_type(c))
  IN  IF unused = <<>> THEN <<>> ELSE <<unused[1]>>

\* GenericsExt::new_types: the first count of A..Z that are not type
\* parameters of self, fewer when the letters run out
new_types(self, count) ==
  LET contains_type(other) ==
        \E i \in 1..Len(self) : self[i].kind = "type" /\ self[i].name = other
      unused == SelectSeq(UpperChars, LAMBDA c : ~contains_type(c))
  IN  IF Len(unused) >= count THEN SubSeq(unused, 1, count) ELSE unused

\* GenericsExt::merged_type_generics_tokens: the lifetimes of self and of
\* other, then the type parameters of self and of other, as arguments
merged_type_generics_tokens(self, other) ==
  LET lifetimes == SelectSeq(self \o other, LAMBDA p : p.kind = "lifetime")
      types == SelectSeq(self \o other, LAMBDA p : p.kind = "type")
  IN  [i \in 1..Len(lifetimes \o types) |-> (lifetimes \o types)[i].name]

\* GenericsExt::merged_generics_tokens: the lifetime parameters of self and
\* of other, then the type parameters of self and of other
merged_generics_tokens(self, other) ==
  LET lifetimes == SelectSeq(self, LAMBDA p : p.kind = "lifetime")
                     \o SelectSeq(other, LAMBDA p : p.kind = "lifetime")
      types == SelectSeq(self, LAMBDA p : p.kind = "type")
                 \o SelectSeq(other, LAMBDA p : p.kind = "type")
  IN  lifetimes \o types

\* VecWrapper::to_token_stream: the struct, the names of the methods of its
\* impl blocks, the per-variant methods, the macro, the generics of the
\* impl blocks and the synthesized parameters; panicked when new_type or
\* new_lifetime panics or the second of new_types(2) is indexed and absent
vec_to_token_stream(self, nodyn) ==
  LET struct_tokens ==
        IF self.is_custom
        THEN StructItem(self.definition.attrs, self.definition.vis, self.definition.ident,
                        nodyn.generics \o self.definition.generics,
                        self.definition.fields \o
                          <<[vis |-> self.definition.vis, ident |-> self.vec_field,
                             ty |-> [vec_of |-> nodyn.ident, generics |-> nodyn.generics]]>>)
        ELSE self.definition
      delegated_methods == {"len", "is_empty", "remove", "pop", "clear"}
      modified_methods == {"insert", "push"}
      partial_eq_methods ==
        IF ~is_trait_derived(nodyn.attrs, "PartialEq") THEN {} ELSE {"dedup"}
      with_partial_ord ==
        IF ~is_trait_derived(nodyn.attrs, "PartialOrd") THEN {} ELSE {"is_sorted"}
      with_ord ==
        IF ~is_trait_derived(nodyn.attrs, "Ord")
        THEN {}
        ELSE {"sort", "sort_unstable", "binary_search"}
      default == with_default_tokens(self, nodyn)
      generics_tokens ==
        IF self.is_custom
        THEN merged_generics_tokens(self.definition.generics, nodyn.generics)
        ELSE nodyn.generics
      type_generics_tokens ==
        IF self.is_custom
        THEN merged_type_generics_tokens(self.definition.generics, nodyn.generics)
        ELSE [i \in 1..Len(nodyn.generics) |-> nodyn.generics[i].name]
      merge_generics(extra1) ==
        IF self.is_custom
        THEN merged_generics_tokens(
               merged_generics_tokens(self.definition.generics, nodyn.generics), extra1)
        ELSE merged_generics_tokens(nodyn.generics, extra1)
      new_type_param == new_type(nodyn.generics)
      lt == new_lifetime(nodyn.generics)
  IN  [panicked |-> new_type_param = <<>> \/ Len(new_types(nodyn.generics, 2)) < 2 \/ lt = <<>>,
       wrapper_struct |-> struct_tokens,
       generics |-> generics_tokens,
       type_generics |-> type_generics_tokens,
       new_type |-> new_type_param,
       new_types |-> new_types(nodyn.generics, 2),
       lt |-> lt,
       index_generics |->
         merge_generics([i \in 1..Len(new_type_param) |->
                           [kind |-> "type", name |-> new_type_param[i]]]),
       lt_generics |->
         merge_generics([i \in 1..Len(lt) |-> [kind |-> "lifetime", name |-> lt[i]]]),
       methods |-> delegated_methods \cup modified_methods \cup partial_eq_methods
                     \cup default.methods \cup with_partial_ord \cup with_ord
                     \cup with_copy_tokens(self, nodyn),
       variant_methods |->
         [i \in 1..Len(nodyn.variants) |->
            generate_vec_methods(nodyn.variants[i], nodyn.ident, self.vec_field)],
       any_all_methods |->
         [i \in 1..Len(nodyn.variants) |->
            vec_methods_tokens(nodyn.variants[i], nodyn.ident, self.vec_field)],
       vec_macro |-> default.vec_macro]

\* ------------------------------------------------------------------------
\* The inputs explored
\* ------------------------------------------------------------------------
I32T == TName(<<"i","3","2">>)

I64T == TName(<<"i","6","4">>)

StrRefT == TRef(<<"a">>, TName(<<"s","t","r">>))

\* the variant entries: `i32`, `i64`, `#[into(i64)] i32`, `Number(i32)`,
\* `I32(i64)`, `#[doc] &'a str` and `fn()`
Entries ==
  { Entry(<<>>, I32T, <<>>),
    Entry(<<>>, I64T, <<>>),
    Entry(<<Attr("into", <<I64T>>)>>, I32T, <<>>),
    Entry(<<>>, TName(<<"N","u","m","b","e","r">>), <<I32T>>),
    Entry(<<>>, TName(<<"I","3","2">>), <<I64T>>),
    Entry(<<Attr("doc", <<>>)>>, StrRefT, <<>>),
    Entry(<<>>, TBareFn, <<>>) }

Keywords == {"TryInto", "is_as", "introspection"}

CargoFeatures == {"try_into", "introspection", "is_as"}

SeqsUpTo(S, n) == UNION {[1..k -> S] : k \in 0..n}

\* the items after the variant list: `impl <keywords>;` lists, and an item
\* that starts with neither `impl`, `vec` nor a struct
Items ==
  {[kind |-> "features", keywords |-> ks] : ks \in SeqsUpTo(Keywords, MaxKeywords) \ {<<>>}}
    \cup {[kind |-> "other", keywords |-> <<>>]}

\* declarations of up to MaxVariants entries without feature lists, expanded
\* by a macro crate built with the default (all) Cargo features
DeclarationInputs ==
  {[variants |-> vs, items |-> <<>>, cargo |-> CargoFeatures] :
     vs \in SeqsUpTo(Entries, MaxVariants)}

\* the number of feature keywords in a sequence of items
RECURSIVE TotalKeywords(_)
TotalKeywords(its) ==
  IF its = <<>> THEN 0 ELSE Len(Head(its).keywords) + TotalKeywords(Tail(its))

\* the declaration `#[into(i64)] i32` followed by up to MaxLists items that
\* hold up to MaxKeywords feature keywords together, under every set of
\* Cargo features
FeatureInputs ==
  {[variants |-> <<Entry(<<Attr("into", <<I64T>>)>>, I32T, <<>>)>>, items |-> its, cargo |-> c] :
     its \in {x \in SeqsUpTo(Items, MaxLists) : TotalKeywords(x) <= MaxKeywords},
     c \in SUBSET CargoFeatures}

\* ------------------------------------------------------------------------
\* Values of the generated enum and evaluation of the emitted code
\* ------------------------------------------------------------------------
Payload(ty, n) == [ty |-> ty, val |-> n, via |-> <<>>]

\* value.into(): the payload converted to the target type (From<T> for T is
\* the identity)
Into(p, ty) ==
  IF p.ty = ty THEN p ELSE [ty |-> ty, val |-> p.val, via |-> p.via \o <<p.ty>>]

\* `match self { arms.. }`: the first arm whose pattern is the value's
\* alternative, as a sequence of zero or one arm
MatchArm(arms, tag) ==
  IF \E i \in 1..Len(arms) : arms[i].pat = tag
  THEN <<arms[CHOOSE i \in 1..Len(arms) :
                 /\ arms[i].pat = tag
                 /\ \A j \in 1..(i - 1) : arms[j].pat # tag]>>
  ELSE <<>>

\* the emitted enum is accepted by the compiler only if its alternatives have
\* pairwise distinct names; only then does a value of it exist
EnumCompiles(defn) ==
  \A i, j \in 1..Len(defn) : i # j => defn[i].ident # defn[j].ident

\* ------------------------------------------------------------------------
\* The inputs of the derivation of names
\* ------------------------------------------------------------------------
StrT == TName(<<"s","t","r">>)

\* `std::string::String`
StdStringT ==
  TPath(<<Segment(<<"s","t","d">>, <<>>), Segment(<<"s","t","r","i","n","g">>, <<>>),
          Segment(<<"S","t","r","i","n","g">>, <<>>)>>)

\* `Vec<arg>`
VecOf(arg) == TPath(<<Segment(<<"V","e","c">>, <<TypeArg(arg)>>)>>)

\* named paths: plain, multi-segment and generic instantiations
NamedTypes == {I32T, StrT, StdStringT, VecOf(I32T), VecOf(TRef(<<>>, StrT))}

\* `fn()`, `*const i32` and `dyn Display`
OtherShapes == {TBareFn, TPtr(I32T), TTraitObject(<<"D","i","s","p","l","a","y">>)}

\* `&t`, `[t; 4]` and `[t]` for the types t of S
Wrap(S) ==
  {TRef(<<>>, t) : t \in S} \cup {TArray(t, << <<"4">> >>) : t \in S}
    \cup {TSlice(t) : t \in S}

\* references, arrays and slices nested up to d deep
RECURSIVE Nested(_)
Nested(d) ==
  IF d = 0 THEN NamedTypes \cup OtherShapes
  ELSE Nested(d - 1) \cup Wrap(Nested(d - 1))

\* tuples of one or two members, a member being nested up to MaxTupleDepth
\* deep or itself the tuple `(i32,)`
TupleTypes ==
  LET members == Nested(MaxTupleDepth) \cup {TTuple(<<I32T>>)}
  IN  {TTuple(<<a>>) : a \in members} \cup {TTuple(<<a, b>>) : a, b \in members}

\* the names of `Name(Type)` entries
VariantNames ==
  { <<"C","a","l","l","b","a","c","k">>,
    <<"H","T","T","P","R","e","s","p","o","n","s","e">>,
    <<"m","y","_","n","a","m","e">> }

\* the entries `Type` and `Name(Type)`, and `Shape(i32)` for the shapes that
\* are no name
IdentEntries ==
  {Entry(<<>>, t, <<>>) : t \in Nested(MaxDepth) \cup TupleTypes}
    \cup {Entry(<<>>, TName(n), <<t>>) : n \in VariantNames, t \in Nested(0)}
    \cup {Entry(<<>>, t, <<I32T>>) : t \in OtherShapes}

IdentChars == {"A", "B", "a", "1", "_"}

\* the strings handed to camel_to_snake: those of the unit test and every
\* string of up to MaxIdentLen characters
Identifiers ==
  { <<"M","y","V","a","r","i","a","n","t">>,
    <<"H","T","T","P","R","e","s","p","o","n","s","e">>,
    <<"l","o","w","e","r","c","a","s","e">> }
    \cup SeqsUpTo(IdentChars, MaxIdentLen)

NoParse == [ok |-> FALSE, err |-> "", variant |-> <<>>]

\* ------------------------------------------------------------------------
\* The inputs of the expansion of impl blocks
\* ------------------------------------------------------------------------
\* `#[must_use] pub const fn foo(&self) -> &'static str { "Foo" }`,
\* `pub fn say(&self, f: &str) -> String;`, `#[inline] fn put(&mut self, a: i32, b: i32);`,
\* `pub fn make(n: i32) -> Self;` and `fn new() -> Self;`
FnItems ==
  { FnItem(<<"must_use">>, "pub", "foo", <<FnArg("Receiver", "self")>>, <<"Foo">>),
    FnItem(<<>>, "pub", "say", <<FnArg("Receiver", "self"), FnArg("Typed", "f")>>, <<>>),
    FnItem(<<"inline">>, "", "put",
           <<FnArg("Receiver", "self"), FnArg("Typed", "a"), FnArg("Typed", "b")>>, <<>>),
    FnItem(<<>>, "pub", "make", <<FnArg("Typed", "n")>>, <<>>),
    FnItem(<<>>, "", "new", <<>>, <<>>) }

\* `impl { items }` and `impl Say { items }`
BlockInput(path, items) == [path |-> path, items |-> items]

\* the number of items in a sequence of blocks
RECURSIVE TotalItems(_)
TotalItems(bs) ==
  IF bs = <<>> THEN 0 ELSE Len(Head(bs).items) + TotalItems(Tail(bs))

\* up to MaxBlocks blocks that hold up to MaxFns items together
BlockInputs ==
  LET OneBlock == {BlockInput(path, items) :
                     path \in {<<>>, <<"Say">>}, items \in SeqsUpTo(FnItems, MaxFns)}
  IN  {bs \in SeqsUpTo(OneBlock, MaxBlocks) : TotalItems(bs) <= MaxFns}

\* the variants of `enum Foo { Bar }` and of `enum Foo { Bar, Xee }`
ImplVariants ==
  { ParseVariants(<<Entry(<<>>, TName(<<"B","a","r">>), <<>>)>>, <<>>).variants,
    ParseVariants(<<Entry(<<>>, TName(<<"B","a","r">>), <<>>),
                    Entry(<<>>, TName(<<"X","e","e">>), <<>>)>>, <<>>).variants }

\* ------------------------------------------------------------------------
\* The inputs of the vec wrappers
\* ------------------------------------------------------------------------
\* the attribute lists of the enum: none; `#[derive(Debug, Clone)]`;
\* `#[doc] #[derive(Clone, Copy)] #[derive(PartialEq)]`;
\* `#[derive(PartialEq, Eq, PartialOrd, Ord)]`
EnumAttrs ==
  { <<>>,
    <<Attr("derive", <<"Debug", "Clone">>)>>,
    <<Attr("doc", <<>>), Attr("derive", <<"Clone", "Copy">>), Attr("derive", <<"PartialEq">>)>>,
    <<Attr("derive", <<"PartialEq", "Eq", "PartialOrd", "Ord">>)>> }

\* the wrapper items: `vec;`, `vec Values;` and
\* `<attrs> pub struct CustomValues { metadata: String }` without derive
\* list, with `#[derive(Debug, Clone)]` and with
\* `#[derive(Default, PartialEq, PartialOrd)]`
WrapperItems ==
  { [kind |-> "vec", ident |-> <<>>],
    [kind |-> "vec", ident |-> << <<"V","a","l","u","e","s">> >>] }
  \cup
  { [kind |-> "struct", shape |-> "named",
     definition |->
       StructItem(attrs, "pub", <<"C","u","s","t","o","m","V","a","l","u","e","s">>, <<>>,
                  <<[vis |-> "", ident |-> "metadata",
                     ty |-> TName(<<"S","t","r","i","n","g">>)]>>)] :
      attrs \in { <<>>,
                  <<Attr("derive", <<"Debug", "Clone">>)>>,
                  <<Attr("derive", <<"Default", "PartialEq", "PartialOrd">>)>> } }

\* `pub enum Value { i32, String }`, `enum Foo<'a> { &'a str }` and
\* `enum Dup { i32, I32(i64) }`, each with one wrapper item
VecDecls ==
  LET Header(vis, ident, generics, entries) ==
        [visibility |-> vis, ident |-> ident, generics |-> generics, variants |-> entries]
      Headers ==
        { Header("pub", <<"V","a","l","u","e">>, <<>>,
                 <<Entry(<<>>, I32T, <<>>), Entry(<<>>, TName(<<"S","t","r","i","n","g">>), <<>>)>>),
          Header("", <<"F","o","o">>, <<[kind |-> "lifetime", name |-> "a"]>>, <<Entry(<<>>, StrRefT, <<>>)>>),
          Header("", <<"D","u","p">>, <<>>,
                 <<Entry(<<>>, I32T, <<>>), Entry(<<>>, TName(<<"I","3","2">>), <<I64T>>)>>) }
  IN  {[attrs |-> a, visibility |-> h.visibility, ident |-> h.ident, generics |-> h.generics,
        variants |-> h.variants, items |-> <<w>>] :
         a \in EnumAttrs, h \in Headers, w \in WrapperItems}

\* the items that may follow the variant list: `impl TryInto;`,
\* `impl Say { }`, `impl { }`, `vec;`,
\* `#[vec(inner_vec)] #[derive(Debug, Clone)] pub struct CustomValues { metadata: String }`,
\* the same struct with `#[vec]`, the same struct without annotation,
\* `pub struct Pair(String);`, `pub struct Unit;` and `fn f() {}`
TrailingItems ==
  LET Struct(attrs, shape) ==
        [kind |-> "struct", shape |-> shape,
         definition |->
           StructItem(attrs, "pub", <<"C","u","s","t","o","m","V","a","l","u","e","s">>, <<>>,
                      IF shape = "unit" THEN <<>>
                      ELSE <<[vis |-> "", ident |-> IF shape = "named" THEN "metadata" ELSE "",
                              ty |-> TName(<<"S","t","r","i","n","g">>)]>>)]
      Derive == Attr("derive", <<"Debug", "Clone">>)
  IN  { [kind |-> "features", keywords |-> <<"TryInto">>],
        [kind |-> "impl", block |-> [path |-> <<"Say">>, items |-> <<>>]],
        [kind |-> "impl", block |-> [path |-> <<>>, items |-> <<>>]],
        [kind |-> "vec", ident |-> <<>>],
        Struct(<<Attr("vec", <<"inner_vec">>), Derive>>, "named"),
        Struct(<<Attr("vec", <<>>), Derive>>, "named"),
        Struct(<<Derive>>, "named"),
        Struct(<<Attr("vec", <<>>)>>, "unnamed"),
        Struct(<<Attr("vec", <<>>)>>, "unit"),
        [kind |-> "other"] }

\* `#[derive(Debug, Clone)] pub enum Value { i32, String }` followed by up
\* to MaxItems items, and the generic declarations: attributes
\* `#[derive(Debug, Clone)]`, `#[derive(Debug, serde::Serialize)]`,
\* `#[module_path = "my_crate::foo"] #[derive(Debug, Clone)]` or
\* `#[module_path = 42] #[derive(Debug, Clone)]`, then one of
\* `enum Value`, `enum Foo<T>`, `enum Foo<'a, T>` and
\* `enum Foo<A, B, .., Y>`, followed by one of `vec;`,
\* `#[vec] pub struct Holder<A> { extra: A }`,
\* `#[vec] pub struct Holder<U> { extra: U }` and
\* `#[vec] pub struct Holder<'z, U> { extra: &'z U }`; and
\* `pub enum Node<'a> { Foo, X } impl is_as; vec;` with X one of `Bar`,
\* `&'a Foo` and `FooMut`
ItemDecls ==
  LET Derive == Attr("derive", <<"Debug", "Clone">>)
      Lt(name) == [kind |-> "lifetime", name |-> name]
      Ty(name) == [kind |-> "type", name |-> name]
      Generic(attrs, generics, entries, item) ==
        [attrs |-> attrs, visibility |-> "pub", ident |-> <<"F","o","o">>,
         generics |-> generics, variants |-> entries, items |-> <<item>>]
      Holder(generics, ty) ==
        [kind |-> "struct", shape |-> "named",
         definition |->
           StructItem(<<Attr("vec", <<>>), Derive>>, "pub", <<"H","o","l","d","e","r">>,
                      generics, <<[vis |-> "", ident |-> "extra", ty |-> ty]>>)]
  IN  {[attrs |-> <<Derive>>, visibility |-> "pub",
        ident |-> <<"V","a","l","u","e">>, generics |-> <<>>,
        variants |-> <<Entry(<<>>, I32T, <<>>),
                       Entry(<<>>, TName(<<"S","t","r","i","n","g">>), <<>>)>>,
        items |-> its] : its \in SeqsUpTo(TrailingItems, MaxItems)}
      \cup
      {Generic(attrs, g.generics, g.variants, item) :
         attrs \in { <<Derive>>,
                     <<Attr("derive", <<"Debug", "serde::Serialize">>)>>,
                     <<Attr("module_path", <<"my_crate::foo">>), Derive>>,
                     <<Attr("module_path", <<"42">>), Derive>> },
         g \in { [generics |-> <<>>, variants |-> <<Entry(<<>>, I32T, <<>>)>>],
                 [generics |-> <<Ty("T")>>, variants |-> <<Entry(<<>>, TName(<<"T">>), <<>>)>>],
                 [generics |-> <<Lt("a"), Ty("T")>>,
                  variants |-> <<Entry(<<>>, StrRefT, <<>>), Entry(<<>>, TName(<<"T">>), <<>>)>>],
                 [generics |-> [i \in 1..25 |-> Ty(UpperChars[i])],
                  variants |-> <<Entry(<<>>, I32T, <<>>)>>] },
         item \in { [kind |-> "vec", ident |-> <<>>],
                    Holder(<<Ty("A")>>, TName(<<"A">>)),
                    Holder(<<Ty("U")>>, TName(<<"U">>)),
                    Holder(<<Lt("z"), Ty("U")>>, TRef(<<"z">>, TName(<<"U">>))) }}
      \cup
      {[attrs |-> <<Derive>>, visibility |-> "pub", ident |-> <<"N","o","d","e">>,
        generics |-> <<Lt("a")>>,
        variants |-> <<Entry(<<>>, TName(<<"F","o","o">>), <<>>), Entry(<<>>, second, <<>>)>>,
        items |-> <<[kind |-> "features", keywords |-> <<"is_as">>],
                    [kind |-> "vec", ident |-> <<>>]>>] :
         second \in { TName(<<"B","a","r">>),
                      TRef(<<"a">>, TName(<<"F","o","o">>)),
                      TName(<<"F","o","o","M","u","t">>) }}

\* ------------------------------------------------------------------------
\* Initial states and actions
\* ------------------------------------------------------------------------
\* no declaration is being expanded
DeclIdle ==
  /\ input = [variants |-> <<>>, items |-> <<>>]
  /\ cargo = {}
  /\ pc = "idle"
  /\ variants = <<>>
  /\ optional_impl = OptionalImplDefault
  /\ error = ""
  /\ tokens = NoTokens
  /\ value = <<>>
  /\ result = <<>>

\* no name is being derived
IdentIdle ==
  /\ source = <<>>
  /\ camel = <<>>
  /\ ipc = "idle"
  /\ parsed = NoParse
  /\ snaked = <<>>

\* no impl block is being expanded
ImplIdle ==
  /\ blocks = <<>>
  /\ mpc = "idle"
  /\ method_impls = <<>>
  /\ trait_impls = <<>>
  /\ emitted = NoImpls

\* no wrapper is being expanded
VecIdle ==
  /\ decl = <<>>
  /\ vpc = "idle"
  /\ nodyn_enum = <<>>
  /\ vec_tokens = <<>>
  /\ inner = <<>>

Init ==
  /\ \E in \in DeclarationInputs \cup FeatureInputs :
       /\ input = [variants |-> in.variants, items |-> in.items]
       /\ cargo = in.cargo
  /\ pc = "input"
  /\ variants = <<>>
  /\ optional_impl = OptionalImplDefault
  /\ error = ""
  /\ tokens = NoTokens
  /\ value = <<>>
  /\ result = <<>>
  /\ IdentIdle
  /\ ImplIdle
  /\ VecIdle

\* parse_macro_input!(input as NodynEnum)
Parse ==
  /\ pc = "input"
  /\ LET r == NodynEnumParse(input)
     IN  /\ pc' = IF r.ok THEN "parsed" ELSE "error"
         /\ variants' = r.variants
         /\ optional_impl' = r.optional_impl
         /\ error' = r.err
  /\ UNCHANGED <<input, cargo, tokens, value, result>>
  /\ UNCHANGED <<identVars, implVars, vecVars>>

\* nodyn_enum.to_token_stream()
Expand ==
  /\ pc = "parsed"
  /\ tokens' = to_token_stream(variants, optional_impl, cargo)
  /\ pc' = "expanded"
  /\ UNCHANGED <<input, cargo, variants, optional_impl, error, value, result>>
  /\ UNCHANGED <<identVars, implVars, vecVars>>

Running == pc = "expanded" /\ EnumCompiles(tokens.enum_definition)

\* Enum::from(x) for x of the wrapped type of the i-th From impl
CallFrom ==
  /\ Running
  /\ \E i \in 1..Len(tokens.default), n \in 1..MaxPayload :
       LET x == Payload(tokens.default[i].ty, n)
           v == [tag |-> tokens.default[i].variant_ident, payload |-> x]
       IN  /\ value' = <<v>>
           /\ result' = <<[call |-> "from", arg |-> x, ret |-> v]>>
  /\ UNCHANGED <<input, cargo, pc, variants, optional_impl, error, tokens>>
  /\ UNCHANGED <<identVars, implVars, vecVars>>

\* <T>::try_from(value) for the target type T of the o-th TryFrom impl
CallTryFrom ==
  /\ Running
  /\ value # <<>>
  /\ \E o \in 1..Len(tokens.optional.try_into) :
       LET impl == tokens.optional.try_into[o]
           arm == MatchArm(impl.arms, value[1].tag)[1]
           ret == IF arm.body = "Ok(value)"
                  THEN [ok |-> TRUE, payload |-> <<value[1].payload>>, err |-> <<>>]
                  ELSE IF arm.body = "Ok(value.into())"
                  THEN [ok |-> TRUE, payload |-> <<Into(value[1].payload, impl.ty)>>, err |-> <<>>]
                  ELSE [ok |-> FALSE, payload |-> <<>>, err |-> arm.text]
       IN  result' = <<[call |-> "try_from", target |-> impl.ty, self |-> value[1], ret |-> ret]>>
  /\ value' = <<>>
  /\ UNCHANGED <<input, cargo, pc, variants, optional_impl, error, tokens>>
  /\ UNCHANGED <<identVars, implVars, vecVars>>

\* value.is_<v>() for the k-th group of accessors
CallIs ==
  /\ Running
  /\ value # <<>>
  /\ tokens.optional.is_as_fn # <<>>
  /\ \E k \in 1..Len(tokens.optional.is_as_fn[1]) :
       LET m == tokens.optional.is_as_fn[1][k]
           arm == MatchArm(m.is_arms, value[1].tag)
       IN  result' = <<[call |-> "is", method |-> k, name |-> m.is_fn, self |-> value[1],
                        ret |-> IF arm = <<>> THEN FALSE ELSE TRUE]>>
  /\ UNCHANGED <<input, cargo, pc, variants, optional_impl, error, tokens, value>>
  /\ UNCHANGED <<identVars, implVars, vecVars>>

\* value.try_as_<v>() for the k-th group of accessors
CallTryAs ==
  /\ Running
  /\ value # <<>>
  /\ tokens.optional.is_as_fn # <<>>
  /\ \E k \in 1..Len(tokens.optional.is_as_fn[1]) :
       LET m == tokens.optional.is_as_fn[1][k]
           arm == MatchArm(m.as_arms, value[1].tag)
           ret == IF arm = <<>> THEN <<>>
                  ELSE IF arm[1].body = "Some(value)" THEN <<value[1].payload>>
                  ELSE <<Into(value[1].payload, m.ty)>>
       IN  result' = <<[call |-> "try_as", method |-> k, name |-> m.as_fn, self |-> value[1],
                        ret |-> ret]>>
  /\ value' = <<>>
  /\ UNCHANGED <<input, cargo, pc, variants, optional_impl, error, tokens>>
  /\ UNCHANGED <<identVars, implVars, vecVars>>

\* value.try_as_<v>_ref() and value.try_as_<v>_mut()
CallTryAsRef ==
  /\ Running
  /\ value # <<>>
  /\ tokens.optional.is_as_fn # <<>>
  /\ \E k \in 1..Len(tokens.optional.is_as_fn[1]), mutable \in BOOLEAN :
       LET m == tokens.optional.is_as_fn[1][k]
       IN  /\ m.ref_mut_methods # <<>>
           /\ LET r == m.ref_mut_methods[1]
                  arm == MatchArm(IF mutable THEN r.as_mut_arms ELSE r.as_ref_arms,
                                  value[1].tag)
              IN  result' = <<[call |-> "try_as_ref", method |-> k,
                               name |-> IF mutable THEN r.as_mut_fn ELSE r.as_ref_fn,
                               self |-> value[1],
                               ret |-> IF arm = <<>> THEN <<>> ELSE <<value[1].payload>>]>>
  /\ UNCHANGED <<input, cargo, pc, variants, optional_impl, error, tokens, value>>
  /\ UNCHANGED <<identVars, implVars, vecVars>>

\* Enum::count()
CallCount ==
  /\ Running
  /\ tokens.optional.type_fns # <<>>
  /\ result' = <<[call |-> "count", ret |-> tokens.optional.type_fns[1].count]>>
  /\ UNCHANGED <<input, cargo, pc, variants, optional_impl, error, tokens, value>>
  /\ UNCHANGED <<identVars, implVars, vecVars>>

\* Enum::types()
CallTypes ==
  /\ Running
  /\ tokens.optional.type_fns # <<>>
  /\ result' = <<[call |-> "types", ret |-> tokens.optional.type_fns[1].types]>>
  /\ UNCHANGED <<input, cargo, pc, variants, optional_impl, error, tokens, value>>
  /\ UNCHANGED <<identVars, implVars, vecVars>>

\* value.type_name()
CallTypeName ==
  /\ Running
  /\ value # <<>>
  /\ tokens.optional.type_fns # <<>>
  /\ LET arm == MatchArm(tokens.optional.type_fns[1].type_name, value[1].tag)[1]
     IN  result' = <<[call |-> "type_name", self |-> value[1], ret |-> arm.text]>>
  /\ UNCHANGED <<input, cargo, pc, variants, optional_impl, error, tokens, value>>
  /\ UNCHANGED <<identVars, implVars, vecVars>>

Next ==
  \/ Parse
  \/ Expand
  \/ CallFrom
  \/ CallTryFrom
  \/ CallIs
  \/ CallTryAs
  \/ CallTryAsRef
  \/ CallCount
  \/ CallTypes
  \/ CallTypeName

Spec == Init /\ [][Next]_vars

\* ------------------------------------------------------------------------
\* The derivation of the names of one variant
\* ------------------------------------------------------------------------
IdentInit ==
  /\ \/ /\ source \in {<<e>> : e \in IdentEntries}
        /\ camel = <<>>
     \/ /\ source = <<>>
        /\ camel \in {<<s>> : s \in Identifiers}
  /\ ipc = "input"
  /\ parsed = NoParse
  /\ snaked = <<>>
  /\ DeclIdle
  /\ ImplIdle
  /\ VecIdle

\* input.parse::<Variant>()
VariantParse ==
  /\ ipc = "input"
  /\ source # <<>>
  /\ parsed' = ParseVariant(source[1])
  /\ ipc' = IF parsed'.ok THEN "parsed" ELSE "error"
  /\ UNCHANGED <<source, camel, snaked>>
  /\ UNCHANGED <<declVars, implVars, vecVars>>

\* variant.ident_to_snake()
IdentToSnake ==
  /\ ipc = "parsed"
  /\ snaked' = <<[of |-> parsed.variant[1].ident, ret |-> ident_to_snake(parsed.variant[1])]>>
  /\ ipc' = "named"
  /\ UNCHANGED <<source, camel, parsed>>
  /\ UNCHANGED <<declVars, implVars, vecVars>>

\* camel_to_snake(camel)
CamelToSnake ==
  /\ ipc = "input"
  /\ camel # <<>>
  /\ snaked' = <<[of |-> camel[1], ret |-> camel_to_snake(camel[1])]>>
  /\ ipc' = "named"
  /\ UNCHANGED <<source, camel, parsed>>
  /\ UNCHANGED <<declVars, implVars, vecVars>>

IdentNext ==
  \/ VariantParse
  \/ IdentToSnake
  \/ CamelToSnake

IdentSpec == IdentInit /\ [][IdentNext]_vars

\* ------------------------------------------------------------------------
\* The expansion of the impl blocks of a declaration
\* ------------------------------------------------------------------------
ImplInit ==
  /\ blocks \in BlockInputs
  /\ mpc = "input"
  /\ method_impls = <<>>
  /\ trait_impls = <<>>
  /\ emitted = NoImpls
  /\ variants \in ImplVariants
  /\ input = [variants |-> <<>>, items |-> <<>>]
  /\ cargo = {}
  /\ pc = "idle"
  /\ optional_impl = OptionalImplDefault
  /\ error = ""
  /\ tokens = NoTokens
  /\ value = <<>>
  /\ result = <<>>
  /\ IdentIdle
  /\ VecIdle

\* the `impl` items of NodynEnum::parse
ParseBlocks ==
  /\ mpc = "input"
  /\ LET r == ParseImpls(blocks)
     IN  /\ method_impls' = r.impl_blocks
         /\ trait_impls' = r.trait_blocks
  /\ mpc' = "parsed"
  /\ UNCHANGED <<blocks, emitted>>
  /\ UNCHANGED <<declVars, identVars, vecVars>>

\* the methods and traits of to_token_stream
ExpandImpls ==
  /\ mpc = "parsed"
  /\ emitted' = [methods |-> method_tokens(variants, method_impls),
                 traits |-> trait_tokens(variants, trait_impls)]
  /\ mpc' = "expanded"
  /\ UNCHANGED <<blocks, method_impls, trait_impls>>
  /\ UNCHANGED <<declVars, identVars, vecVars>>

\* the methods emitted into the method blocks and into the trait blocks
EmittedMethods ==
  {[kind |-> "impl", block |-> b, method |-> emitted.methods[b].methods[k]] :
     <<b, k>> \in {x \in (1..Len(emitted.methods)) \X (1..MaxFns) :
                     x[2] <= Len(emitted.methods[x[1]].methods)}}
  \cup
  {[kind |-> "trait", block |-> b, method |-> emitted.traits[b].fns[k]] :
     <<b, k>> \in {x \in (1..Len(emitted.traits)) \X (1..MaxFns) :
                     x[2] <= Len(emitted.traits[x[1]].fns)}}

\* the argument the caller passes for a typed parameter: its position among
\* the typed parameters of the signature
Actual(inputs, pat) ==
  LET pats == TypedPats(inputs)
  IN  CHOOSE j \in 1..Len(pats) : pats[j] = pat

\* value.method(1, 2, ..) on a value of the enum: the arm of the value's
\* alternative calls the payload
CallMethod ==
  /\ mpc = "expanded"
  /\ \E em \in EmittedMethods, i \in 1..Len(variants), n \in 1..MaxPayload :
       LET m == em.method
           v == [tag |-> variants[i].ident, payload |-> Payload(variants[i].ty, n)]
           arm == MatchArm(m.arms, v.tag)[1]
       IN  result' = <<[call |-> "method", kind |-> em.kind, block |-> em.block,
                        name |-> m.ident, inputs |-> m.inputs, self |-> v,
                        callee |-> [receiver |-> v.payload, function |-> arm.function,
                                    args |-> [j \in 1..Len(arm.args) |->
                                                Actual(m.inputs, arm.args[j])]]]>>
  /\ UNCHANGED <<input, cargo, pc, variants, optional_impl, error, tokens, value>>
  /\ UNCHANGED <<identVars, implVars, vecVars>>

ImplNext ==
  \/ ParseBlocks
  \/ ExpandImpls
  \/ CallMethod

ImplSpec == ImplInit /\ [][ImplNext]_vars

\* ------------------------------------------------------------------------
\* The expansion and use of a vec wrapper
\* ------------------------------------------------------------------------
VecInit ==
  /\ decl \in VecDecls
  /\ vpc = "input"
  /\ nodyn_enum = <<>>
  /\ vec_tokens = <<>>
  /\ inner = <<>>
  /\ DeclIdle
  /\ IdentIdle
  /\ ImplIdle

\* NodynEnum::parse of the header, the variants and the wrapper items
VecParse ==
  /\ vpc = "input"
  /\ LET mp == extract_module_path(decl.attrs)
         vs == ParseVariants(decl.variants, <<>>)
         its == ParseWrappers(decl.items, NoItems, decl.visibility, decl.ident,
                              decl.generics, extract_derive_attrs(mp.attrs))
         checked == vs.ok /\ ~HasDuplicateType(vs.variants)
         ok == ~mp.panicked /\ checked /\ its.ok
     IN  /\ vpc' = IF ok THEN "parsed"
                   ELSE IF mp.panicked \/ (checked /\ its.panicked) THEN "panic"
                   ELSE "error"
         /\ nodyn_enum' =
              IF ok
              THEN <<[attrs |-> mp.attrs, visibility |-> decl.visibility,
                      ident |-> decl.ident, generics |-> decl.generics,
                      variants |-> vs.variants,
                      method_impls |-> its.impl_blocks,
                      trait_impls |-> its.trait_blocks,
                      optional_impl |-> its.features,
                      vec_wrappers |-> its.wrappers]>>
              ELSE <<>>
  /\ UNCHANGED <<decl, vec_tokens, inner>>
  /\ UNCHANGED <<declVars, identVars, implVars>>

\* NodynEnum::to_token_stream: the enum with its impls (no cargo feature
\* enabled) and the vec_wrappers
VecExpand ==
  /\ vpc = "parsed"
  /\ LET ts == [i \in 1..Len(nodyn_enum[1].vec_wrappers) |->
                  vec_to_token_stream(nodyn_enum[1].vec_wrappers[i], nodyn_enum[1])]
         panicked == \E i \in 1..Len(ts) : ts[i].panicked
     IN  /\ vec_tokens' = IF panicked THEN <<>> ELSE ts
         /\ tokens' = IF panicked THEN tokens
                      ELSE to_token_stream(nodyn_enum[1].variants, nodyn_enum[1].optional_impl, {})
         /\ vpc' = IF panicked THEN "panic" ELSE "expanded"
  /\ UNCHANGED <<decl, nodyn_enum, inner>>
  /\ UNCHANGED <<input, cargo, pc, variants, optional_impl, error, value, result>>
  /\ UNCHANGED <<identVars, implVars>>

\* the generated enum and the first wrapper struct are accepted by the
\* compiler: `vec` is not an attribute a struct may carry
VecCompiles ==
  /\ vpc = "expanded"
  /\ EnumCompiles(enum_definition_tokens(nodyn_enum[1].variants))
  /\ vec_tokens # <<>>
  /\ \A i \in 1..Len(vec_tokens[1].wrapper_struct.attrs) :
       vec_tokens[1].wrapper_struct.attrs[i].path # "vec"

\* a value of the first wrapper exists
VecRunning == vpc = "value"

\* the values of the wrapped types
VecArgs ==
  {Payload(nodyn_enum[1].variants[i].ty, n) :
     i \in 1..Len(nodyn_enum[1].variants), n \in 1..MaxPayload}

\* Enum::from(x): the alternative of the From impl of the type of x
EnumFrom(vs, x) ==
  LET impls == from_tokens(vs)
      i == CHOOSE k \in 1..Len(impls) : impls[k].ty = x.ty
  IN  [tag |-> impls[i].variant_ident, payload |-> x]

\* an empty wrapper built by a struct literal or by Default::default()
Create ==
  /\ VecCompiles
  /\ inner' = <<>>
  /\ vpc' = "value"
  /\ UNCHANGED <<decl, nodyn_enum, vec_tokens>>
  /\ UNCHANGED <<declVars, identVars, implVars>>

\* wrapper.push(x): self.inner.push(x.into())
Push ==
  /\ VecRunning
  /\ "push" \in vec_tokens[1].methods
  /\ Len(inner) < MaxVecLen
  /\ \E x \in VecArgs :
       /\ inner' = Append(inner, EnumFrom(nodyn_enum[1].variants, x))
       /\ result' = <<>>
  /\ UNCHANGED <<decl, vpc, nodyn_enum, vec_tokens>>
  /\ UNCHANGED <<input, cargo, pc, variants, optional_impl, error, tokens, value>>
  /\ UNCHANGED <<identVars, implVars>>

\* wrapper.insert(index, x): self.inner.insert(index, x.into()); an index
\* beyond the length panics
Insert ==
  /\ VecRunning
  /\ "insert" \in vec_tokens[1].methods
  /\ Len(inner) < MaxVecLen
  /\ \E index \in 0..Len(inner), x \in VecArgs :
       /\ inner' = SubSeq(inner, 1, index)
                     \o <<EnumFrom(nodyn_enum[1].variants, x)>>
                     \o SubSeq(inner, index + 1, Len(inner))
       /\ result' = <<>>
  /\ UNCHANGED <<decl, vpc, nodyn_enum, vec_tokens>>
  /\ UNCHANGED <<input, cargo, pc, variants, optional_impl, error, tokens, value>>
  /\ UNCHANGED <<identVars, implVars>>

\* wrapper.pop(): None on an empty wrapper
Pop ==
  /\ VecRunning
  /\ "pop" \in vec_tokens[1].methods
  /\ inner' = IF inner = <<>> THEN inner ELSE SubSeq(inner, 1, Len(inner) - 1)
  /\ result' = <<>>
  /\ UNCHANGED <<decl, vpc, nodyn_enum, vec_tokens>>
  /\ UNCHANGED <<input, cargo, pc, variants, optional_impl, error, tokens, value>>
  /\ UNCHANGED <<identVars, implVars>>

\* wrapper.remove(index); an index out of bounds panics
Remove ==
  /\ VecRunning
  /\ "remove" \in vec_tokens[1].methods
  /\ \E index \in 0..(Len(inner) - 1) :
       inner' = SubSeq(inner, 1, index) \o SubSeq(inner, index + 2, Len(inner))
  /\ result' = <<>>
  /\ UNCHANGED <<decl, vpc, nodyn_enum, vec_tokens>>
  /\ UNCHANGED <<input, cargo, pc, variants, optional_impl, error, tokens, value>>
  /\ UNCHANGED <<identVars, implVars>>

\* wrapper.clear()
Clear ==
  /\ VecRunning
  /\ "clear" \in vec_tokens[1].methods
  /\ inner' = <<>>
  /\ result' = <<>>
  /\ UNCHANGED <<decl, vpc, nodyn_enum, vec_tokens>>
  /\ UNCHANGED <<input, cargo, pc, variants, optional_impl, error, tokens, value>>
  /\ UNCHANGED <<identVars, implVars>>

\* a per-variant method of the given role applied to a content: the indices
\* of the elements its pattern matches
Matched(method, content) ==
  {k \in 1..Len(content) : content[k].tag = method.pat}

\* wrapper.count_<v>() for every variant, and wrapper.len()
CallCounts ==
  /\ VecRunning
  /\ "len" \in vec_tokens[1].methods
  /\ result' = <<[call |-> "counts",
                  counts |-> [i \in 1..Len(vec_tokens[1].variant_methods) |->
                                LET m == vec_tokens[1].variant_methods[i][7]
                                IN  [name |-> m.name,
                                     ret |-> Cardinality(Matched(m, inner))]],
                  len |-> Len(inner)]>>
  /\ UNCHANGED <<input, cargo, pc, variants, optional_impl, error, tokens, value>>
  /\ UNCHANGED <<identVars, implVars, vecVars>>

\* m![x1, .., xn] with the generated macro: the list arm builds a wrapper
\* from vec![Enum::from(x1), ..], the empty arm calls new()
CallMacro ==
  /\ VecCompiles
  /\ vec_tokens[1].vec_macro # <<>>
  /\ \E xs \in SeqsUpTo(VecArgs, MaxVecLen) :
       /\ inner' = [i \in 1..Len(xs) |-> EnumFrom(nodyn_enum[1].variants, xs[i])]
       /\ result' = <<[call |-> "macro", name |-> vec_tokens[1].vec_macro[1].name,
                       args |-> xs]>>
  /\ vpc' = "value"
  /\ UNCHANGED <<decl, nodyn_enum, vec_tokens>>
  /\ UNCHANGED <<input, cargo, pc, variants, optional_impl, error, tokens, value>>
  /\ UNCHANGED <<identVars, implVars>>

\* first_<v>(), first_<v>_mut(), last_<v>(), last_<v>_mut(), the items of
\* iter_<v>() and iter_<v>_mut(), and count_<v>(), called for every variant:
\* find_map over the content, find_map over the reversed content,
\* filter_map and filter().count() on the pattern Enum::V(value)
CallVariantMethods ==
  /\ VecRunning
  /\ LET rev == [k \in 1..Len(inner) |-> inner[Len(inner) + 1 - k]]
         find_map(iter, m) ==
           LET found == SelectSeq(iter, LAMBDA item : item.tag = m.pat)
           IN  IF found = <<>> THEN <<>> ELSE <<found[1].payload>>
         filter_map(iter, m) ==
           LET found == SelectSeq(iter, LAMBDA item : item.tag = m.pat)
           IN  [k \in 1..Len(found) |-> found[k].payload]
         Run(m) ==
           CASE m.role \in {"first", "first_mut"} -> find_map(inner, m)
             [] m.role \in {"last", "last_mut"} -> find_map(rev, m)
             [] m.role \in {"iter", "iter_mut"} -> filter_map(inner, m)
             [] m.role = "count" -> Len(SelectSeq(inner, LAMBDA item : item.tag = m.pat))
     IN  result' = <<[call |-> "variant_methods",
                      rets |-> [i \in 1..Len(vec_tokens[1].variant_methods) |->
                                  [j \in 1..Len(vec_tokens[1].variant_methods[i]) |->
                                     [name |-> vec_tokens[1].variant_methods[i][j].name,
                                      ret |-> Run(vec_tokens[1].variant_methods[i][j])]]]]>>
  /\ UNCHANGED <<input, cargo, pc, variants, optional_impl, error, tokens, value>>
  /\ UNCHANGED <<identVars, implVars, vecVars>>

\* any_<v>() and all_<v>() called for every variant: whether any item, and
\* whether every item, is of the variant
CallAnyAll ==
  /\ VecRunning
  /\ LET Run(m) ==
           CASE m.role = "any" -> \E k \in 1..Len(inner) : inner[k].tag = m.pat
             [] m.role = "all" -> \A k \in 1..Len(inner) : inner[k].tag = m.pat
     IN  result' = <<[call |-> "any_all",
                      rets |-> [i \in 1..Len(vec_tokens[1].any_all_methods) |->
                                  [j \in 1..Len(vec_tokens[1].any_all_methods[i]) |->
                                     [name |-> vec_tokens[1].any_all_methods[i][j].name,
                                      ret |-> Run(vec_tokens[1].any_all_methods[i][j])]]]]>>
  /\ UNCHANGED <<input, cargo, pc, variants, optional_impl, error, tokens, value>>
  /\ UNCHANGED <<identVars, implVars, vecVars>>

VecNext ==
  \/ VecParse
  \/ VecExpand
  \/ Create
  \/ CallMacro
  \/ Push
  \/ Insert
  \/ Pop
  \/ Remove
  \/ Clear
  \/ CallCounts
  \/ CallVariantMethods
  \/ CallAnyAll

VecSpec == VecInit /\ [][VecNext]_vars

\* ------------------------------------------------------------------------
\* The expansion of a declaration with any items after the variant list
\* ------------------------------------------------------------------------
ItemInit ==
  /\ decl \in ItemDecls
  /\ vpc = "input"
  /\ nodyn_enum = <<>>
  /\ vec_tokens = <<>>
  /\ inner = <<>>
  /\ DeclIdle
  /\ IdentIdle
  /\ ImplIdle

ItemNext ==
  \/ VecParse
  \/ VecExpand

ItemSpec == ItemInit /\ [][ItemNext]_vars

\* ------------------------------------------------------------------------
\* Vocabulary of the properties
\* ------------------------------------------------------------------------
Accepted == pc \in {"parsed", "expanded"}

Called(name) == result # <<>> /\ result[1].call = name

\* the type a variant entry of the input wraps
WrappedType(entry) == IF entry.paren # <<>> THEN entry.paren[1] ELSE entry.outer

\* every entry of the input variant list parses into a variant
VariantListParses ==
  \A i \in 1..Len(input.variants) : ident_from_type(input.variants[i].outer).ok

\* ------------------------------------------------------------------------
\* C1: with TryFrom emitted, <B's type>::try_from of a value holding A is
\* Ok(payload) when A = B, Ok(payload.into()) when A's #[into] list has B's
\* type, and Err otherwise; each conversion has one arm per variant, in order.
\* ------------------------------------------------------------------------
C1_TryFromPairs ==
  /\ Called("try_from") =>
       \A a, b \in 1..Len(variants) :
         (result[1].self.tag = variants[a].ident /\ result[1].target = variants[b].ty) =>
           LET r == result[1].ret
               declared == Contains(variants[a].into, variants[b].ty)
           IN  /\ r.ok <=> (a = b \/ declared)
               /\ a = b => r.payload = <<result[1].self.payload>>
               /\ (a # b /\ declared) =>
                    r.payload = <<Into(result[1].self.payload, variants[b].ty)>>
               /\ ~r.ok => r.payload = <<>>
  /\ pc = "expanded" =>
       \A o \in 1..Len(tokens.optional.try_into) :
         LET arms == tokens.optional.try_into[o].arms
         IN  /\ Len(arms) = Len(variants)
             /\ \A i \in 1..Len(arms) : arms[i].pat = variants[i].ident

\* a value holding A was converted into another variant's type through #[into]
C1_Witness ==
  /\ Called("try_from")
  /\ result[1].ret.ok
  /\ result[1].ret.payload[1].via # <<>>
  /\ result[1].target # result[1].self.payload.ty

\* ------------------------------------------------------------------------
\* C2: round trip: Enum::from(x).try_as_<v>() for the variant V that wraps
\* the type of x returns Some(x).
\* ------------------------------------------------------------------------
C2_RoundTrip ==
  Called("try_as") =>
    \A k \in 1..Len(variants) :
      (result[1].method = k /\ variants[k].ty = result[1].self.payload.ty) =>
        /\ result[1].ret = <<result[1].self.payload>>
        /\ result[1].name = <<"t","r","y","_","a","s","_">> \o camel_to_snake(variants[k].ident)

C2_Witness ==
  /\ Called("try_as")
  /\ variants[result[1].method].ty = result[1].self.payload.ty
  /\ result[1].ret = <<result[1].self.payload>>
  /\ Len(variants) >= 2

\* ------------------------------------------------------------------------
\* C3: after a successful parse the variant identifiers are pairwise distinct.
\* ------------------------------------------------------------------------
C3_DistinctIdents ==
  Accepted =>
    \A i, j \in 1..Len(variants) : i # j => variants[i].ident # variants[j].ident

\* ------------------------------------------------------------------------
\* C4: a declaration whose variant list parses and in which two variants wrap
\* the same type is rejected with "Duplicate variant type detected", whatever
\* the names of the two variants; no accepted declaration has two variants of
\* one type.
\* ------------------------------------------------------------------------
C4_DuplicateTypeRejected ==
  /\ Accepted =>
       \A i, j \in 1..Len(variants) : i # j => variants[i].ty # variants[j].ty
  /\ (/\ pc # "input"
      /\ VariantListParses
      /\ \E i, j \in 1..Len(input.variants) :
           i # j /\ WrappedType(input.variants[i]) = WrappedType(input.variants[j]))
       => (pc = "error" /\ error = "Duplicate variant type detected")

\* two variants of the same type but with different identifiers were rejected
C4_Witness ==
  /\ pc = "error"
  /\ error = "Duplicate variant type detected"
  /\ \E i, j \in 1..Len(input.variants) :
       /\ i # j
       /\ WrappedType(input.variants[i]) = WrappedType(input.variants[j])
       /\ input.variants[i].paren # <<>>
       /\ ident_from_type(input.variants[i].outer).ident
            # ident_from_type(input.variants[j].outer).ident

\* ------------------------------------------------------------------------
\* C5: From<T> is emitted for every variant whatever the feature keywords and
\* Cargo features, and Enum::from(x) is the alternative of the variant that
\* wraps the type of x, carrying x.
\* ------------------------------------------------------------------------
C5_FromUnconditional ==
  /\ pc = "expanded" =>
       /\ Len(tokens.default) = Len(variants)
       /\ \A i \in 1..Len(variants) : tokens.default[i].ty = variants[i].ty
  /\ Called("from") =>
       \E i \in 1..Len(variants) :
         /\ variants[i].ty = result[1].arg.ty
         /\ result[1].ret = [tag |-> variants[i].ident, payload |-> result[1].arg]

\* From was called although no keyword and no Cargo feature is set
C5_Witness ==
  /\ Called("from")
  /\ cargo = {}
  /\ none(optional_impl)
  /\ tokens.optional.try_into = <<>>

\* ------------------------------------------------------------------------
\* Feature selection: what the invocation asks for and what was emitted
\* ------------------------------------------------------------------------
\* the keyword occurs in at least one `impl <keywords>` list of the input
KeywordOccurs(k) ==
  \E i \in 1..Len(input.items) :
    input.items[i].kind = "features" /\ Contains(input.items[i].keywords, k)

AnyKeyword == \E k \in Keywords : KeywordOccurs(k)

\* one TryFrom impl per variant, resp. none at all
TryFromEmitted ==
  \A i \in 1..Len(variants) :
    \E o \in 1..Len(tokens.optional.try_into) : tokens.optional.try_into[o].ty = variants[i].ty

TryFromAbsent == tokens.optional.try_into = <<>>

IntrospectionEmitted == tokens.optional.type_fns # <<>>

IsAsEmitted ==
  /\ tokens.optional.is_as_fn # <<>>
  /\ Len(tokens.optional.is_as_fn[1]) = Len(variants)

IsAsAbsent == tokens.optional.is_as_fn = <<>>

\* ------------------------------------------------------------------------
\* C6 as stated: each optional output is emitted iff its keyword occurs in at
\* least one feature list of the invocation.
\* ------------------------------------------------------------------------
C6_KeywordsOnly ==
  pc = "expanded" =>
    /\ IF KeywordOccurs("TryInto") THEN TryFromEmitted ELSE TryFromAbsent
    /\ IntrospectionEmitted <=> KeywordOccurs("introspection")
    /\ IF KeywordOccurs("is_as") THEN IsAsEmitted ELSE IsAsAbsent

\* C6 as amended: provided at least one feature keyword occurs in the
\* invocation, each optional output is emitted iff its keyword occurs in at
\* least one feature list, whatever the order and repetition of the lists.
C6_KeywordsWhenAny ==
  (pc = "expanded" /\ AnyKeyword) =>
    /\ IF KeywordOccurs("TryInto") THEN TryFromEmitted ELSE TryFromAbsent
    /\ IntrospectionEmitted <=> KeywordOccurs("introspection")
    /\ IF KeywordOccurs("is_as") THEN IsAsEmitted ELSE IsAsAbsent

\* two lists, the keyword of the first one not repeated in the second, and
\* Cargo features that would enable everything
C6_Witness ==
  /\ pc = "expanded"
  /\ cargo = CargoFeatures
  /\ Len(input.items) = 2
  /\ input.items[1].keywords = <<"is_as">>
  /\ input.items[2].keywords = <<"TryInto">>
  /\ IsAsEmitted
  /\ TryFromEmitted
  /\ ~IntrospectionEmitted

\* ------------------------------------------------------------------------
\* C7: without any feature keyword each optional output is emitted exactly
\* when the Cargo feature of the same name is enabled; with at least one
\* keyword the Cargo features do not matter.
\* ------------------------------------------------------------------------
C7_CargoFallback ==
  pc = "expanded" =>
    LET wanted(k, f) == IF AnyKeyword THEN KeywordOccurs(k) ELSE f \in cargo
    IN  /\ IF wanted("TryInto", "try_into") THEN TryFromEmitted ELSE TryFromAbsent
        /\ IF wanted("introspection", "introspection")
           THEN IntrospectionEmitted ELSE ~IntrospectionEmitted
        /\ IF wanted("is_as", "is_as") THEN IsAsEmitted ELSE IsAsAbsent

\* no keyword, one Cargo feature: only its output is emitted
C7_Witness ==
  /\ pc = "expanded"
  /\ ~AnyKeyword
  /\ cargo = {"introspection"}
  /\ IntrospectionEmitted
  /\ TryFromAbsent
  /\ IsAsAbsent
  /\ Len(variants) > 0

\* ------------------------------------------------------------------------
\* C8: count() is the number of variants; types() has count() entries, the
\* i-th being the type name of the i-th variant; type_name() of a value
\* holding the i-th variant is types()[i].
\* ------------------------------------------------------------------------
C8_Introspection ==
  /\ Called("count") => result[1].ret = Len(variants)
  /\ Called("types") =>
       /\ Len(result[1].ret) = tokens.optional.type_fns[1].count
       /\ \A i \in 1..Len(variants) : result[1].ret[i] = type_to_string(variants[i].ty)
  /\ Called("type_name") =>
       \A i \in 1..Len(variants) :
         result[1].self.tag = variants[i].ident =>
           /\ result[1].ret = tokens.optional.type_fns[1].types[i]
           /\ result[1].ret = type_to_string(result[1].self.payload.ty)

\* type_name() was called on a value holding the second of several variants
C8_Witness ==
  /\ Called("type_name")
  /\ Len(variants) >= 2
  /\ result[1].self.tag = variants[2].ident
  /\ result[1].ret = <<"&", "'", "a", " ", "s", "t", "r">>

\* ------------------------------------------------------------------------
\* C9: e.is_<v>() is true iff e holds V; exactly one is_* method is true of
\* any value.
\* ------------------------------------------------------------------------
C9_IsExactlyHeld ==
  /\ Called("is") =>
       /\ result[1].ret <=> (result[1].self.tag = variants[result[1].method].ident)
       /\ result[1].name = <<"i","s","_">> \o camel_to_snake(variants[result[1].method].ident)
  /\ (Running /\ value # <<>> /\ tokens.optional.is_as_fn # <<>>) =>
       Cardinality({k \in 1..Len(tokens.optional.is_as_fn[1]) :
                      MatchArm(tokens.optional.is_as_fn[1][k].is_arms, value[1].tag) # <<>>}) = 1

\* is_<v>() answered false for a value whose #[into] list has V's type
C9_Witness ==
  /\ Called("is")
  /\ ~result[1].ret
  /\ \E s \in 1..Len(variants) :
       /\ result[1].self.tag = variants[s].ident
       /\ Contains(variants[s].into, variants[result[1].method].ty)

\* ------------------------------------------------------------------------
\* C10: try_as_<v>() on a value holding S # V is Some(payload.into()) iff the
\* #[into] list of S has V's type, and None otherwise.
\* ------------------------------------------------------------------------
C10_TryAsOther ==
  Called("try_as") =>
    \A s \in 1..Len(variants) :
      (result[1].self.tag = variants[s].ident /\ s # result[1].method) =>
        LET ty == variants[result[1].method].ty
        IN  IF Contains(variants[s].into, ty)
            THEN result[1].ret = <<Into(result[1].self.payload, ty)>>
            ELSE result[1].ret = <<>>

\* try_as_<v>() converted the payload of another variant
C10_Witness ==
  /\ Called("try_as")
  /\ result[1].ret # <<>>
  /\ result[1].ret[1].via # <<>>
  /\ result[1].self.tag # variants[result[1].method].ident

\* ------------------------------------------------------------------------
\* Vocabulary of the derivation of names
\* ------------------------------------------------------------------------
\* Variant::parse has run on an entry `Type`
ParsedPlain == ipc \in {"parsed", "error", "named"} /\ source # <<>> /\ source[1].paren = <<>>

\* the suffix the naming rules give a reference, an array and a slice
Suffix(ty) ==
  CASE ty.kind = "Reference" -> <<"R","e","f">>
    [] ty.kind = "Array" -> <<"A","r","r","a","y">> \o Concat(ty.len)
    [] ty.kind = "Slice" -> <<"S","l","i","c","e">>

\* ------------------------------------------------------------------------
\* C11: for a reference, array or slice whose element type is derivable, the
\* derived identifier is the identifier derived for the element followed by
\* Ref, Array<len> or Slice.
\* ------------------------------------------------------------------------
C11_SuffixOfElement ==
  ParsedPlain =>
    LET ty == source[1].outer
    IN  (ty.kind \in {"Reference", "Array", "Slice"} /\ ident_from_type(ty.elems[1]).ok) =>
          /\ parsed.ok
          /\ parsed.variant[1].ident = ident_from_type(ty.elems[1]).ident \o Suffix(ty)

\* ------------------------------------------------------------------------
\* C12: for a tuple all of whose members are derivable the derived identifier
\* is the concatenation, in member order, of the identifiers derived for the
\* members, followed by Tuple; a tuple with a member that is not derivable is
\* rejected with an error.
\* ------------------------------------------------------------------------
C12_TupleOfMembers ==
  ParsedPlain =>
    LET ty == source[1].outer
        member(i) == ident_from_type(ty.elems[i])
    IN  ty.kind = "Tuple" =>
          IF \A i \in 1..Len(ty.elems) : member(i).ok
          THEN /\ parsed.ok
               /\ parsed.variant[1].ident =
                    Concat([i \in 1..Len(ty.elems) |-> member(i).ident])
                      \o <<"T","u","p","l","e">>
          ELSE /\ ~parsed.ok
               /\ parsed.err # ""

\* ------------------------------------------------------------------------
\* C13: for a type that is no named path, reference, array, slice or tuple
\* the derivation of the identifier fails and Variant::parse returns the
\* error instead of a variant; written as Name(Type) the same type is
\* accepted, named after Name.
\* ------------------------------------------------------------------------
C13_OtherShapesRejected ==
  (ipc \in {"parsed", "error", "named"} /\ source # <<>>) =>
    LET e == source[1]
        Listed(t) == t.kind \in {"Path", "Reference", "Array", "Slice", "Tuple"}
    IN  /\ ~Listed(e.outer) =>
             /\ ipc = "error"
             /\ ~parsed.ok
             /\ parsed.variant = <<>>
             /\ parsed.err = "Unsupported type for variant identifier"
        /\ (e.outer.kind = "Path" /\ e.paren # <<>> /\ ~Listed(e.paren[1])) =>
             /\ parsed.ok
             /\ parsed.variant[1].ty = e.paren[1]
             /\ parsed.variant[1].ident = ident_from_type(e.outer).ident

\* a raw pointer was rejected
C13_Witness ==
  /\ ipc = "error"
  /\ source # <<>>
  /\ source[1].outer.kind = "Ptr"
  /\ source[1].paren = <<>>
  /\ parsed.err = "Unsupported type for variant identifier"

\* ------------------------------------------------------------------------
\* C14: camel_to_snake lower-cases every letter and puts one underscore
\* before each capital that is not the first character; every other
\* character stays as it is and a run of capitals is split letter by letter.
\* ------------------------------------------------------------------------
C14_CamelToSnake ==
  snaked # <<>> =>
    LET c == snaked[1].of
        r == snaked[1].ret
        \* the capitals among the characters 2..i of c
        capitals(i) == Cardinality({j \in 2..i : is_uppercase(c[j])})
        \* the place in r of the i-th character of c
        place(i) == i + capitals(i)
    IN  /\ Len(r) = Len(c) + capitals(Len(c))
        /\ \A i \in 1..Len(c) :
             /\ r[place(i)] = (IF is_uppercase(c[i]) THEN to_lowercase(c[i]) ELSE c[i])
             /\ (i > 1 /\ is_uppercase(c[i])) => r[place(i) - 1] = "_"
        /\ c = <<"M","y","V","a","r","i","a","n","t">>
             => r = <<"m","y","_","v","a","r","i","a","n","t">>
        /\ c = <<"l","o","w","e","r","c","a","s","e">> => r = c

\* the acronym of the unit test was split letter by letter
C14_Witness ==
  /\ snaked # <<>>
  /\ snaked[1].of = <<"H","T","T","P","R","e","s","p","o","n","s","e">>
  /\ snaked[1].ret = <<"h","_","t","_","t","_","p","_","r","e","s","p","o","n","s","e">>

\* ------------------------------------------------------------------------
\* Vocabulary of the impl blocks
\* ------------------------------------------------------------------------
\* a signature that ends in `;`
Bodiless(it) == it.body = <<>>

\* the first parameter is a receiver
HasReceiver(it) == it.inputs # <<>> /\ it.inputs[1].kind = "Receiver"

\* the method blocks, resp. the trait blocks, of the input, in order
MethodBlocksIn == SelectSeq(blocks, LAMBDA b : b.path = <<>>)

TraitBlocksIn == SelectSeq(blocks, LAMBDA b : b.path # <<>>)

\* ------------------------------------------------------------------------
\* C15: every bodiless signature of an `impl { .. }` or `impl Trait { .. }`
\* block whose first parameter is a receiver becomes a method with the same
\* attributes, visibility and signature whose body has one arm per variant,
\* in order, each calling the method of that name on the payload with the
\* other parameters in their declared order; the items with a body are
\* emitted as they are.
\* ------------------------------------------------------------------------
C15_Delegation ==
  LET Delegates(in_items, out_items, out_methods) ==
        LET sigs == SelectSeq(in_items, LAMBDA it : Bodiless(it) /\ HasReceiver(it))
        IN  /\ out_items = SelectSeq(in_items, LAMBDA it : ~Bodiless(it))
            /\ Len(out_methods) = Len(sigs)
            /\ \A k \in 1..Len(sigs) :
                 LET f == sigs[k]
                     m == out_methods[k]
                 IN  /\ m.attrs = f.attrs /\ m.vis = f.vis
                     /\ m.ident = f.ident /\ m.inputs = f.inputs
                     /\ Len(m.arms) = Len(variants)
                     /\ \A i \in 1..Len(variants) :
                          /\ m.arms[i].pat = variants[i].ident
                          /\ m.arms[i].function = f.ident
                          /\ m.arms[i].args =
                               [j \in 1..(Len(f.inputs) - 1) |-> f.inputs[j + 1].pat]
  IN  /\ mpc = "expanded" =>
           /\ Len(emitted.methods) = Len(MethodBlocksIn)
           /\ Len(emitted.traits) = Len(TraitBlocksIn)
           /\ \A b \in 1..Len(MethodBlocksIn) :
                Delegates(MethodBlocksIn[b].items, emitted.methods[b].items,
                          emitted.methods[b].methods)
           /\ \A b \in 1..Len(TraitBlocksIn) :
                /\ emitted.traits[b].trait_path = TraitBlocksIn[b].path[1]
                /\ Delegates(TraitBlocksIn[b].items, emitted.traits[b].items,
                             emitted.traits[b].fns)
      /\ Called("method") =>
           result[1].callee =
             [receiver |-> result[1].self.payload,
              function |-> result[1].name,
              args |-> [j \in 1..(Len(result[1].inputs) - 1) |-> j]]

\* put(1, 2) of a trait block reached the payload of the second variant
C15_Witness ==
  /\ Called("method")
  /\ result[1].kind = "trait"
  /\ result[1].name = "put"
  /\ Len(variants) = 2
  /\ result[1].self.tag = variants[2].ident
  /\ result[1].callee.args = <<1, 2>>
  /\ result[1].callee.receiver = result[1].self.payload

\* ------------------------------------------------------------------------
\* C16: a bodiless signature whose first parameter is no receiver yields no
\* method, and the rest of its block, method block or trait block alike, is
\* emitted as if the signature were absent.
\* ------------------------------------------------------------------------
C16_NoReceiverDropped ==
  mpc = "expanded" =>
    LET Kept(b) ==
          [b EXCEPT !.items = SelectSeq(b.items, LAMBDA it : ~(Bodiless(it) /\ ~HasReceiver(it)))]
        without == ParseImpls([i \in 1..Len(blocks) |-> Kept(blocks[i])])
    IN  /\ emitted.methods = method_tokens(variants, without.impl_blocks)
        /\ emitted.traits = trait_tokens(variants, without.trait_blocks)
        /\ \A em \in EmittedMethods : HasReceiver(em.method)

\* `impl { pub fn make(n: i32) -> Self; pub fn say(&self, f: &str) -> String; }`
\* gave the one method say
C16_Witness ==
  /\ mpc = "expanded"
  /\ Len(blocks) = 1
  /\ blocks[1].path = <<>>
  /\ Len(blocks[1].items) = 2
  /\ blocks[1].items[1].ident = "make"
  /\ blocks[1].items[2].ident = "say"
  /\ Len(emitted.methods[1].methods) = 1
  /\ emitted.methods[1].methods[1].ident = "say"

\* the counting method generated for the i-th variant
CountMethod(i) == vec_tokens[1].variant_methods[i][7]

\* the value of count_<v>() on the current content, for the i-th variant
CountOf(i) == Cardinality(Matched(CountMethod(i), inner))

\* C17: whatever sequence of push, insert, pop, remove and clear built the
\* content of a wrapper, the values of count_<v>() over all variants add up
\* to len(), a call of the counting methods returns these values, and when
\* the content holds exactly one value of each wrapped type every
\* count_<v>() is 1 and len() is the number of variants.
C17_CountsSumToLen ==
  VecRunning =>
    LET n == Len(nodyn_enum[1].variants)
        Sum[i \in 0..n] == IF i = 0 THEN 0 ELSE Sum[i - 1] + CountOf(i)
        OneOfEach ==
          /\ Len(inner) = n
          /\ \A i \in 1..n : \E k \in 1..n :
               /\ inner[k].payload.ty = nodyn_enum[1].variants[i].ty
               /\ \A j \in 1..n : inner[j].payload.ty = inner[k].payload.ty => j = k
    IN  /\ Sum[n] = Len(inner)
        /\ Called("counts") =>
             /\ result[1].len = Len(inner)
             /\ \A i \in 1..n : result[1].counts[i].ret = CountOf(i)
        /\ OneOfEach => \A i \in 1..n : CountOf(i) = 1

\* the counting methods called on a wrapper of `{ i32, String }` (or of
\* `{ i32, I32(i64) }`, which the compiler rejects) that holds one value of
\* each wrapped type: count_i32() returns 1 and so does the other
C17_Witness ==
  /\ VecRunning
  /\ Called("counts")
  /\ Len(nodyn_enum[1].variants) = 2
  /\ Len(inner) = 2
  /\ inner[1].payload.ty # inner[2].payload.ty
  /\ result[1].counts[1].ret = 1
  /\ result[1].counts[2].ret = 1
  /\ result[1].counts[1].name = <<"c","o","u","n","t","_","i","3","2">>

\* the wrappers have been generated
VecExpanded == vpc \in {"expanded", "value"}

\* the traits listed by the derive attributes among attrs, in order
RECURSIVE Derives(_)
Derives(attrs) ==
  IF attrs = <<>> THEN <<>>
  ELSE (IF Head(attrs).path = "derive" THEN Head(attrs).args ELSE <<>>) \o Derives(Tail(attrs))

\* C18: the struct generated for `vec;` is named <Enum>Vec and the one for
\* `vec Name;` is named Name; it has the visibility and the generic
\* parameters of the enum, and the traits it derives are Default followed by
\* the traits the enum derives, in order, without Copy.
C18_StandardWrapper ==
  (VecExpanded /\ decl.items[1].kind = "vec") =>
    LET w == vec_tokens[1].wrapper_struct
    IN  /\ w.ident = IF decl.items[1].ident = <<>>
                     THEN decl.ident \o <<"V","e","c">>
                     ELSE decl.items[1].ident[1]
        /\ w.vis = decl.visibility
        /\ w.generics = decl.generics
        /\ Derives(w.attrs) =
             <<"Default">> \o SelectSeq(Derives(decl.attrs), LAMBDA t : t # "Copy")
        /\ \A i \in 1..Len(w.attrs) : w.attrs[i].path = "derive"

\* `#[doc] #[derive(Clone, Copy)] #[derive(PartialEq)] pub enum Value {..} vec;`
\* has been expanded into `pub struct ValueVec` deriving Default, Clone and
\* PartialEq
C18_Witness ==
  /\ VecExpanded
  /\ decl.items[1] = [kind |-> "vec", ident |-> <<>>]
  /\ Contains(Derives(decl.attrs), "Copy")
  /\ decl.visibility = "pub"
  /\ vec_tokens[1].wrapper_struct.ident = <<"V","a","l","u","e","V","e","c">>
  /\ Derives(vec_tokens[1].wrapper_struct.attrs) = <<"Default", "Clone", "PartialEq">>

\* C19: the construction macro is generated for a wrapper exactly when the
\* wrapper struct derives Default; its name is the snake case form of the
\* wrapper's name (value_vec for ValueVec, values for Values); and
\* m![x1, .., xn] builds a wrapper of n elements whose i-th element is the
\* alternative of the type of xi holding xi.
C19_Macro ==
  VecExpanded =>
    LET t == vec_tokens[1]
        w == t.wrapper_struct
        vs == nodyn_enum[1].variants
    IN  /\ (t.vec_macro # <<>>) <=> Contains(Derives(w.attrs), "Default")
        /\ t.vec_macro # <<>> =>
             /\ t.vec_macro[1].name = camel_to_snake(w.ident)
             /\ w.ident = <<"V","a","l","u","e","V","e","c">> =>
                  t.vec_macro[1].name = <<"v","a","l","u","e","_","v","e","c">>
             /\ w.ident = <<"V","a","l","u","e","s">> =>
                  t.vec_macro[1].name = <<"v","a","l","u","e","s">>
        /\ Called("macro") =>
             LET xs == result[1].args
             IN  /\ t.vec_macro # <<>>
                 /\ result[1].name = t.vec_macro[1].name
                 /\ Len(inner) = Len(xs)
                 /\ \A i \in 1..Len(xs) :
                      /\ inner[i].payload = xs[i]
                      /\ \E k \in 1..Len(vs) :
                           vs[k].ty = xs[i].ty /\ inner[i].tag = vs[k].ident

\* value_vec![1, 2 (a String), 2] has built a ValueVec of the three elements
\* I32, String, I32
C19_Witness ==
  /\ Called("macro")
  /\ result[1].name = <<"v","a","l","u","e","_","v","e","c">>
  /\ Len(result[1].args) = 3
  /\ result[1].args[1].ty = I32T
  /\ result[1].args[2].ty # I32T
  /\ result[1].args[3] = Payload(I32T, 2)
  /\ Len(inner) = 3
  /\ inner[3] = [tag |-> <<"I","3","2">>, payload |-> Payload(I32T, 2)]

\* the operations of the first wrapper that are generated under a condition
GatedOn(attrs, op) ==
  CASE op = "dedup" -> Contains(Derives(attrs), "PartialEq")
    [] op = "is_sorted" -> Contains(Derives(attrs), "PartialOrd")
    [] op \in {"sort", "sort_unstable", "binary_search"} -> Contains(Derives(attrs), "Ord")
    [] op \in {"copy_from_slice", "copy_within"} -> Contains(Derives(attrs), "Copy")
    [] op \in {"new", "with_capacity", "split_off"} -> Contains(Derives(attrs), "Default")

ElementOps ==
  {"dedup", "is_sorted", "sort", "sort_unstable", "binary_search",
   "copy_from_slice", "copy_within"}

DefaultOps == {"new", "with_capacity", "split_off"}

StructItems == {i \in 1..Len(decl.items) : decl.items[i].kind = "struct"}

\* the struct item carries `#[vec]` or `#[vec(field)]`
Annotated(item) ==
  \E k \in 1..Len(item.definition.attrs) : item.definition.attrs[k].path = "vec"

\* the declaration was accepted by the parser
VecAccepted == vpc \in {"parsed", "expanded", "value"}

\* C21: a declaration with a struct item is accepted only if every struct
\* item has named fields and carries a `#[vec]` or `#[vec(field)]`
\* annotation, and then every struct item is a wrapper of the parsed enum:
\* none is dropped.
C21_StructItemsChecked ==
  VecAccepted =>
    /\ \A i \in StructItems :
         decl.items[i].shape = "named" /\ Annotated(decl.items[i])
    /\ Cardinality(StructItems) =
         Cardinality({k \in 1..Len(nodyn_enum[1].vec_wrappers) :
                        nodyn_enum[1].vec_wrappers[k].is_custom})

\* C22: the struct generated for a custom wrapper annotated `#[vec]` or
\* `#[vec(f)]` has the fields the user declared, in order, followed by
\* exactly one field of type Vec<Enum>, named inner for `#[vec]` and f for
\* `#[vec(f)]`; the per-variant methods and the construction macro use that
\* field.
C22_CustomField ==
  vpc = "expanded" =>
    \A k \in 1..Len(vec_tokens) :
      LET w == nodyn_enum[1].vec_wrappers[k]
          t == vec_tokens[k]
          anns == SelectSeq(w.definition.attrs, LAMBDA a : a.path = "vec")
          added == t.wrapper_struct.fields[Len(t.wrapper_struct.fields)]
      IN  (w.is_custom /\ anns # <<>>) =>
            /\ t.wrapper_struct.fields = w.definition.fields \o <<added>>
            /\ added.ty = [vec_of |-> decl.ident, generics |-> decl.generics]
            /\ added.ident = IF anns[1].args = <<>> THEN "inner" ELSE anns[1].args[1]
            /\ \A i \in 1..Len(t.variant_methods) :
                 \A j \in 1..Len(t.variant_methods[i]) :
                   t.variant_methods[i][j].field = added.ident
            /\ t.vec_macro # <<>> => t.vec_macro[1].field = added.ident

\* C23: every synthesized type parameter and lifetime of a wrapper differs
\* from every generic parameter in scope, the enum's and the wrapper
\* struct's, and the two type parameters synthesized together differ from
\* each other
C23_FreshParams ==
  VecExpanded =>
    \A i \in 1..Len(vec_tokens) :
      LET t == vec_tokens[i]
          scope == nodyn_enum[1].generics \o nodyn_enum[1].vec_wrappers[i].definition.generics
          Names(kinds) == {scope[j].name : j \in {k \in 1..Len(scope) : scope[k].kind \in kinds}}
      IN  /\ \A j \in 1..Len(t.new_type) : t.new_type[j] \notin Names({"type", "const"})
          /\ \A j \in 1..Len(t.new_types) : t.new_types[j] \notin Names({"type", "const"})
          /\ \A j \in 1..Len(t.new_types) :
                \A k \in 1..Len(t.new_types) : j # k => t.new_types[j] # t.new_types[k]
          /\ \A j \in 1..Len(t.lt) : t.lt[j] \notin Names({"lifetime"})

\* C24: parsing and emission of a declaration end in generated declarations
\* or in a structured error; no input makes the generator panic, whatever
\* the derive lists, the module_path attribute or the number of generic
\* parameters
C24_NoPanic == vpc # "panic"

\* C25: with TryFrom emitted, the types TryFrom<Enum> is implemented for are
\* the wrapped types of the variants whose type is not a reference, and no
\* reference type is among them
C25_TryFromNonReference ==
  (pc = "expanded" /\ tokens.optional.try_into # <<>>) =>
    {tokens.optional.try_into[o].ty : o \in 1..Len(tokens.optional.try_into)}
      = {variants[i].ty : i \in {j \in 1..Len(variants) : variants[j].ty.kind # "Reference"}}

\* C26: an accepted declaration has only items that begin with `impl`,
\* `vec` or a struct, and the numbers of recorded method blocks, trait
\* blocks and wrappers are the numbers of `impl { }` items, of
\* `impl Trait { }` items and of `vec` or annotated struct items; a
\* declaration with an item that begins with any other token ends in an
\* error
C26_ItemsClassified ==
  LET ItemsThat(P(_)) == {i \in 1..Len(decl.items) : P(decl.items[i])}
      IsMethodBlock(it) == it.kind = "impl" /\ it.block.path = <<>>
      IsTraitBlock(it) == it.kind = "impl" /\ it.block.path # <<>>
      IsWrapper(it) == it.kind = "vec" \/ (it.kind = "struct" /\ Annotated(it))
      IsOther(it) == it.kind = "other"
  IN  /\ VecAccepted =>
           /\ ItemsThat(IsOther) = {}
           /\ Len(nodyn_enum[1].method_impls) = Cardinality(ItemsThat(IsMethodBlock))
           /\ Len(nodyn_enum[1].trait_impls) = Cardinality(ItemsThat(IsTraitBlock))
           /\ Len(nodyn_enum[1].vec_wrappers) = Cardinality(ItemsThat(IsWrapper))
      /\ (vpc # "input" /\ ItemsThat(IsOther) # {}) => vpc = "error"

C28_FirstLastIter ==
  Called("variant_methods") =>
    \A i \in 1..Len(nodyn_enum[1].variants) :
      LET snake == ident_to_snake(nodyn_enum[1].variants[i])
          at == {k \in 1..Len(inner) : inner[k].tag = nodyn_enum[1].variants[i].ident}
          lowest == CHOOSE k \in at : \A l \in at : k <= l
          highest == CHOOSE k \in at : \A l \in at : k >= l
          Rets(name) == {result[1].rets[i][j].ret :
                           j \in {l \in 1..Len(result[1].rets[i]) : result[1].rets[i][l].name = name}}
          InOrder(r) ==
            /\ Len(r) = Cardinality(at)
            /\ Len(r) = CountOf(i)
            /\ \E f \in [1..Len(r) -> at] :
                 /\ \A j, k \in 1..Len(r) : j < k => f[j] < f[k]
                 /\ \A j \in 1..Len(r) : r[j] = inner[f[j]].payload
      IN  /\ Rets(<<"f","i","r","s","t","_">> \o snake)
               = {IF at = {} THEN <<>> ELSE <<inner[lowest].payload>>}
          /\ Rets(<<"l","a","s","t","_">> \o snake)
               = {IF at = {} THEN <<>> ELSE <<inner[highest].payload>>}
          /\ \A r \in Rets(<<"i","t","e","r","_">> \o snake) : InOrder(r)
          /\ Rets(<<"i","t","e","r","_">> \o snake) # {}

\* the per-variant methods were called on a content with two items of the
\* first variant that hold different payloads and an item of another
\* variant: first_<v>() and last_<v>() return different payloads
C28_Witness ==
  /\ Called("variant_methods")
  /\ CountOf(1) = 2
  /\ Len(inner) = MaxVecLen
  /\ result[1].rets[1][1].ret # result[1].rets[1][3].ret
  /\ Len(result[1].rets[1][5].ret) = 2

\* C29: for a custom wrapper whose struct and enum both have generic
\* parameters, the parameter list of the emitted struct declaration and the
\* argument list applied to the struct in the emitted impl blocks name the
\* same parameters at the same positions
C29_GenericsAligned ==
  VecExpanded =>
    \A i \in 1..Len(vec_tokens) :
      LET w == nodyn_enum[1].vec_wrappers[i]
          declared == vec_tokens[i].wrapper_struct.generics
          applied == vec_tokens[i].type_generics
      IN  (w.is_custom /\ w.definition.generics # <<>> /\ nodyn_enum[1].generics # <<>>) =>
            /\ Len(declared) = Len(applied)
            /\ \A k \in 1..Len(declared) : declared[k].name = applied[k]

\* C30: in an expanded declaration the names of the is_<v>, try_as_<v>,
\* try_as_<v>_ref and try_as_<v>_mut methods of the enum are pairwise
\* distinct, and so are the names of the first_<v>, first_<v>_mut,
\* last_<v>, last_<v>_mut, iter_<v>, iter_<v>_mut and count_<v> methods of
\* each wrapper
C30_DistinctMethodNames ==
  VecExpanded =>
    LET Distinct(names) ==
          \A j \in 1..Len(names) : \A k \in 1..Len(names) :
             j # k => names[j] # names[k]
        EnumNames(m) ==
          <<m.is_fn, m.as_fn>>
            \o Concat([r \in 1..Len(m.ref_mut_methods) |->
                         <<m.ref_mut_methods[r].as_ref_fn, m.ref_mut_methods[r].as_mut_fn>>])
        WrapperNames(ms) == [j \in 1..Len(ms) |-> ms[j].name]
    IN  /\ \A e \in 1..Len(tokens.optional.is_as_fn) :
             Distinct(Concat([v \in 1..Len(tokens.optional.is_as_fn[e]) |->
                                EnumNames(tokens.optional.is_as_fn[e][v])]))
        /\ \A i \in 1..Len(vec_tokens) :
             Distinct(Concat([v \in 1..Len(vec_tokens[i].variant_methods) |->
                                WrapperNames(vec_tokens[i].variant_methods[v])]))
====
